---- MODULE Spec2Model ----
(***************************************************************************)
(* A model of the xsum checksum engine (package xsum): Sum.Each with its   *)
(* ordered result queue, the concurrent Merkle walker Sum.walkFile /       *)
(* Sum.walkDir under the CPU semaphore, and the canonical encodings the    *)
(* walker hashes.                                                          *)
(***************************************************************************)
EXTENDS Integers, Sequences, FiniteSets, TLC

\* ---------------------------------------------------------------- bounds
\* largest semaphore capacity a run is started with
MaxCap == 2
\* largest number of inputs sent on the files channel
MaxInputs == 2
\* modulus of the modelled hash function
HashMod == 9973
\* longest string passed to NewMaskHex and to NewMaskString
MaxHexLen == 5
MaxStringLen == 4
\* walkFile invocations alive or finished in one run, beyond which no symlink is followed
MaxWalkers == 10

\* ------------------------------------------------------- program constants
\* encoding.HashNone and encoding.HashSHA256 (the algorithm of every input)
HashNone == 0
HashSHA256 == 4

\* os.FileMode bits, by bit position
ModeBit == [dir |-> 31, symlink |-> 27, device |-> 26, pipe |-> 25, socket |-> 24,
            setuid |-> 23, setgid |-> 22, chardev |-> 21, sticky |-> 20, irregular |-> 19]
ModeType == {ModeBit.dir, ModeBit.symlink, ModeBit.pipe, ModeBit.socket,
             ModeBit.device, ModeBit.chardev, ModeBit.irregular}
ModePerm == 0..8

\* bit positions of 04000, 02000, 01000 in Mask.Mode
sModeSetuid == 11
sModeSetgid == 10
sModeSticky == 9

\* ------------------------------------------------------------ file system
\* What os.Lstat, Readdirnames, EvalSymlinks, Readlink and os.Open return for
\* each path.  A path is the index of its entry; NoPath is a path that
\* resolves to nothing.
NoPath == 0

Ent(kind, name, kids, target, ok, mode, data) ==
    [kind |-> kind, name |-> name, kids |-> kids, target |-> target, ok |-> ok,
     mode |-> mode, data |-> data]

FS == <<
    Ent("file",    <<1>>, {},       NoPath, TRUE,  {8, 7, 5, 2},                <<10, 11>>),  \* 1  f
    Ent("dir",     <<2>>, {3, 4},   NoPath, TRUE,  {ModeBit.dir, 8, 7, 6},      <<>>),        \* 2  d
    Ent("file",    <<3>>, {},       NoPath, TRUE,  {8, 7, 5, 2},                <<12>>),      \* 3  d/a
    Ent("file",    <<4>>, {},       NoPath, TRUE,  {8, 7, 6, 5},                <<13>>),      \* 4  d/b
    Ent("symlink", <<5>>, {},       1,      TRUE,  {ModeBit.symlink, 8, 7, 6},  <<1>>),       \* 5  l -> f
    Ent("missing", <<6>>, {},       NoPath, FALSE, {},                          <<>>),        \* 6  x
    Ent("dir",     <<7>>, {8, 9},   NoPath, TRUE,  {ModeBit.dir, 8, 7, 6},      <<>>),        \* 7  e
    Ent("file",    <<3>>, {},       NoPath, FALSE, {},                          <<>>),        \* 8  e/a (unreadable)
    Ent("symlink", <<4>>, {},       NoPath, TRUE,  {ModeBit.symlink, 8, 7, 6},  <<6>>),       \* 9  e/b -> x (dangling)
    Ent("dir",     <<8>>, {11, 12}, NoPath, TRUE,  {ModeBit.dir, 8, 7, 6},      <<>>),        \* 10 n
    Ent("dir",     <<9>>, {13},     NoPath, TRUE,  {ModeBit.dir, 8, 7, 6},      <<>>),        \* 11 n/s
    Ent("symlink", <<5>>, {},       1,      TRUE,  {ModeBit.symlink, 8, 7, 6},  <<1>>),       \* 12 n/l -> f
    Ent("file",    <<3>>, {},       NoPath, TRUE,  {8, 7, 5, 2},                <<12>>),      \* 13 n/s/a
    Ent("dir",     <<7>>, {},       NoPath, FALSE, {ModeBit.dir},               <<>>),        \* 14 r (unreadable dir)
    Ent("special", <<6>>, {},       NoPath, TRUE,  {ModeBit.pipe, 8, 7},        <<>>),        \* 15 p (fifo)
    Ent("dir",     <<10>>, {17},    NoPath, TRUE,  {ModeBit.dir, 8, 7, 6},      <<>>),        \* 16 m
    Ent("dir",     <<9>>, {18},     NoPath, TRUE,  {ModeBit.dir, 8, 7, 6},      <<>>),        \* 17 m/s
    Ent("file",    <<3>>, {},       NoPath, FALSE, {},                          <<>>),        \* 18 m/s/a (unreadable)
    Ent("dir",     <<11>>, {20},    NoPath, TRUE,  {ModeBit.dir, 8, 7, 6},      <<>>),        \* 19 c
    Ent("symlink", <<12>>, {},      19,     TRUE,  {ModeBit.symlink, 8, 7, 6},  <<19>>),      \* 20 c/loop -> c
    Ent("symlink", <<13>>, {},      NoPath, TRUE,  {ModeBit.symlink, 8, 7, 6},  <<21>>),      \* 21 s -> s
    Ent("symlink", <<14>>, {},      NoPath, TRUE,  {ModeBit.symlink, 8, 7, 6},  <<23>>),      \* 22 t -> u
    Ent("symlink", <<15>>, {},      NoPath, TRUE,  {ModeBit.symlink, 8, 7, 6},  <<22>>),      \* 23 u -> t
    Ent("file",    <<16>>, {},      NoPath, TRUE,  {8, 5, 2},                   <<10, 11>>),  \* 24 g  (f with other metadata)
    Ent("dir",     <<17>>, {3, 4},  NoPath, TRUE,  {ModeBit.dir, 8, 7},         <<>>),        \* 25 h  (d with other metadata)
    Ent("dir",     <<18>>, {27},    NoPath, TRUE,  {ModeBit.dir, 8, 7, 6},      <<>>),        \* 26 k  (n/s, other metadata inside)
    Ent("file",    <<3>>,  {},      NoPath, TRUE,  {8, 7, 6, 5, 2},             <<12>>),      \* 27 k/a
    Ent("symlink", <<19>>, {},      1,      TRUE,  {ModeBit.symlink, 8, 7},     <<1>>),       \* 28 j -> f (l with other metadata)
    Ent("dir",     <<20>>, {30, 31}, NoPath, TRUE, {ModeBit.dir, 8, 7, 6},      <<>>),        \* 29 q
    Ent("file",    <<21>>, {},      NoPath, TRUE,  {8, 7, 5, 2},                <<12>>),      \* 30 q/a
    Ent("symlink", <<22>>, {},      1,      TRUE,  {ModeBit.symlink, 8, 7, 6},  <<1>>),       \* 31 q/l -> f
    Ent("dir",     <<23>>, {33, 34}, NoPath, TRUE, {ModeBit.dir, 8, 7, 6},      <<>>),        \* 32 v  (q with children renamed)
    Ent("file",    <<24>>, {},      NoPath, TRUE,  {8, 7, 5, 2},                <<12>>),      \* 33 v/b
    Ent("symlink", <<25>>, {},      1,      TRUE,  {ModeBit.symlink, 8, 7, 6},  <<1>>),       \* 34 v/m -> f
    Ent("symlink", <<26>>, {},      2,      TRUE,  {ModeBit.symlink, 8, 7, 6},  <<2>>),       \* 35 y -> d
    Ent("symlink", <<27>>, {},      14,     TRUE,  {ModeBit.symlink, 8, 7, 6},  <<14>>)       \* 36 w -> r
>>

Paths == 1..Len(FS)

\* ------------------------------------------------------------- sequences
\* bytes.Compare(a, b) < 0
LexLess(a, b) ==
    \E k \in 1..(Len(a) + 1) :
        /\ k <= Len(b)
        /\ \A j \in 1..(k - 1) : a[j] = b[j]
        /\ (k = Len(a) + 1 \/ a[k] < b[k])

\* every order in which the elements of a set may be listed
Perms(S) == {s \in [1..Cardinality(S) -> S] : \A a, b \in 1..Cardinality(S) : a # b => s[a] # s[b]}

\* encoding/asn1 sorts the encoded elements of a SET OF
SortSeqs(s) ==
    CHOOSE t \in {[k \in 1..Len(s) |-> s[p[k]]] : p \in Perms(1..Len(s))} :
        \A k \in 1..(Len(t) - 1) : ~LexLess(t[k + 1], t[k])

Concat(s) ==
    LET c[n \in 0..Len(s)] == IF n = 0 THEN <<>> ELSE c[n - 1] \o s[n]
    IN  c[Len(s)]

\* ---------------------------------------------------------------- hashing
\* the hash function: a polynomial over the bytes of the pre-image
HashBytes(b) ==
    LET h[n \in 0..Len(b)] == IF n = 0 THEN 7 ELSE (h[n - 1] * 31 + b[n] + 1) % HashMod
    IN  h[Len(b)]

\* hashAlg.Metadata: the digest of an in-memory pre-image
Metadata(b) == <<HashBytes(b)>>

\* hashAlg.File: the digest of the contents of the file at path p
HashFile(p) == <<HashBytes(FS[p].data)>>

\* ------------------------------------------------------------------ masks
\* Attr: the option letters of attrRep; Mask: (Mode, Attr)
AttrLetters == {"u", "g", "s", "t", "c", "x", "i", "n", "e", "l"}
StatAttrs == {"u", "g", "s", "t", "c"}

Mask(mode, attr) == [mode |-> mode, attr |-> attr]

\* File: (Hash, Path, Mask); the hash algorithm is HashSHA256 throughout
File(path, mask) == [path |-> path, mask |-> mask]

\* ----------------------------------------------------------------- errors
\* An error value is a chain of FileError wrappers around a cause.
NoErr == [chain |-> <<>>, cause |-> ""]
Cause(c) == [chain |-> <<>>, cause |-> c]
ErrDirectory == Cause("is a directory")
ErrNoStat == Cause("stat data unavailable")
ErrNoXattr == Cause("xattr data unavailable")
\* ErrSpecialFile of the earlier walkFile (package sum)
ErrSpecialFile == Cause("is a special file")

newFileError(action, path, subdir, err) ==
    [chain |-> <<[action |-> action, path |-> path, subdir |-> subdir]>> \o err.chain,
     cause |-> err.cause]

\* ------------------------------------------------------------------ nodes
\* Node: File, Sum, Mode, Sys, Xattr, Err.  A nil slice or pointer is <<>>.
Node(file, sum, mode, sys, xattr, err) ==
    [path |-> file.path, mask |-> file.mask, sum |-> sum, mode |-> mode,
     sys |-> sys, xattr |-> xattr, err |-> err]

NilNode == Node(File(NoPath, Mask({}, {})), <<>>, {}, <<>>, <<>>, NoErr)

\* an error path that returns nil instead of a node
newFileErrorNodeNil(action, file, subdir, err) == NilNode

\* newFileErrorNode: &Node{File: file, Err: newFileError(...)}
newFileErrorNode(action, file, subdir, err) ==
    Node(file, <<>>, {}, <<>>, <<>>, newFileError(action, file.path, subdir, err))

\* getSys (POSIX): every Stat_t field of the entry at path p
getSys(p) ==
    <<[uid |-> <<1000 + (p % 2)>>, gid |-> <<100>>, mtime |-> <<500 + p, 0>>,
       ctime |-> <<600 + p, 0>>, rdev |-> <<p>>]>>

\* getXattr: the hashed extended attributes of the entry at path p
getXattr(p) ==
    IF p = 1 THEN <<[hash |-> Metadata(<<42>>), name |-> <<1>>]>> ELSE <<>>

\* -------------------------------------------------------------- encodings
\* byte k (0 is the least significant) of the word whose set bits are S
ByteOf(S, k) ==
    LET v[j \in 0..7] == (IF 8 * k + j \in S THEN 2^j ELSE 0) + (IF j = 0 THEN 0 ELSE v[j - 1])
    IN  v[7]

\* binary.BigEndian.PutUint32 of a set of mode bits
PutUint32(S) == <<ByteOf(S, 3), ByteOf(S, 2), ByteOf(S, 1), ByteOf(S, 0)>>

EntryDER(h) == <<Len(h.hash) + Len(h.name)>> \o h.hash \o h.name

\* a tree whose elements are encoded in the order given
TreeUnsorted(hashType, hashes) ==
    <<hashType>> \o Concat([k \in 1..Len(hashes) |-> EntryDER(hashes[k])])

\* encoding.TreeASN1DER: HashTree ::= SEQUENCE { hashType, SET OF HashEntry }
TreeASN1DER(hashType, hashes) ==
    <<hashType>> \o Concat(SortSeqs([k \in 1..Len(hashes) |-> EntryDER(hashes[k])]))

\* a File record whose mode.mode holds every bit of the mode
FileASN1DERModeRaw(hashType, hash, mode, mask, sys) ==
    (IF hashType # HashNone THEN <<200, hashType>> \o hash ELSE <<>>)
    \o <<201>> \o PutUint32(mask) \o PutUint32(mode)
    \o (IF sys.uid # <<>> THEN <<202>> \o sys.uid ELSE <<>>)
    \o (IF sys.gid # <<>> THEN <<203>> \o sys.gid ELSE <<>>)
    \o (IF sys.mtime # <<>> THEN <<205>> \o sys.mtime ELSE <<>>)
    \o (IF sys.ctime # <<>> THEN <<206>> \o sys.ctime ELSE <<>>)
    \o (IF sys.rdev # <<>> /\ mode \cap {ModeBit.device, ModeBit.chardev} # {}
        THEN <<208>> \o sys.rdev ELSE <<>>)
    \o (IF sys.xattr # <<>> THEN <<209>> \o TreeASN1DER(HashSHA256, sys.xattr[1]) ELSE <<>>)

\* encoding.FileASN1DER
FileASN1DER(hashType, hash, mode, mask, sys) ==
    (IF hashType # HashNone THEN <<200, hashType>> \o hash ELSE <<>>)
    \o <<201>> \o PutUint32(mask) \o PutUint32(mode \cap mask)
    \o (IF sys.uid # <<>> THEN <<202>> \o sys.uid ELSE <<>>)
    \o (IF sys.gid # <<>> THEN <<203>> \o sys.gid ELSE <<>>)
    \o (IF sys.mtime # <<>> THEN <<205>> \o sys.mtime ELSE <<>>)
    \o (IF sys.ctime # <<>> THEN <<206>> \o sys.ctime ELSE <<>>)
    \o (IF sys.rdev # <<>> /\ mode \cap {ModeBit.device, ModeBit.chardev} # {}
        THEN <<208>> \o sys.rdev ELSE <<>>)
    \o (IF sys.xattr # <<>> THEN <<209>> \o TreeASN1DER(HashSHA256, sys.xattr[1]) ELSE <<>>)

\* a mode mask made of the permission and special bits only
modeMaskNoType(n) ==
    (n.mask.mode \cap ModePerm)
    \cup (IF sModeSetuid \in n.mask.mode THEN {ModeBit.setuid} ELSE {})
    \cup (IF sModeSetgid \in n.mask.mode THEN {ModeBit.setgid} ELSE {})
    \cup (IF sModeSticky \in n.mask.mode THEN {ModeBit.sticky} ELSE {})

\* hashFileAttr: modeMask := os.ModeType | permMask | specialMask
modeMask(n) ==
    LET specialMask ==
            (IF sModeSetuid \in n.mask.mode THEN {ModeBit.setuid} ELSE {})
            \cup (IF sModeSetgid \in n.mask.mode THEN {ModeBit.setgid} ELSE {})
            \cup (IF sModeSticky \in n.mask.mode THEN {ModeBit.sticky} ELSE {})
        permMask == n.mask.mode \cap ModePerm
    IN  ModeType \cup permMask \cup specialMask

\* hashFileAttr: the encoding.Sys with the fields the attributes select
selectSys(n) ==
    LET sel(a, v) == IF a \in n.mask.attr THEN v ELSE <<>>
    IN  [uid |-> IF n.sys = <<>> THEN <<>> ELSE sel("u", n.sys[1].uid),
         gid |-> IF n.sys = <<>> THEN <<>> ELSE sel("g", n.sys[1].gid),
         mtime |-> IF n.sys = <<>> THEN <<>> ELSE sel("t", n.sys[1].mtime),
         ctime |-> IF n.sys = <<>> THEN <<>> ELSE sel("c", n.sys[1].ctime),
         rdev |-> IF n.sys = <<>> THEN <<>> ELSE sel("s", n.sys[1].rdev),
         xattr |-> sel("x", n.xattr)]

\* a File record that names the algorithm whatever the digest
fileRecordTyped(n) ==
    FileASN1DER(HashSHA256, n.sum, n.mode, modeMask(n), selectSys(n))

\* hashFileAttr: the File record handed to Hash.Metadata
fileRecord(n) ==
    LET hashType == IF Len(n.sum) # 0 THEN HashSHA256 ELSE HashNone
    IN  FileASN1DER(hashType, n.sum, n.mode, modeMask(n), selectSys(n))

\* hashFileAttr: the digest of the File record of a node, or an error
hashFileAttr(n) ==
    IF n.sys = <<>> /\ n.mask.attr \cap StatAttrs # {}
    THEN [sum |-> <<>>, err |-> ErrNoStat]
    ELSE IF n.xattr = <<>> /\ "x" \in n.mask.attr
    THEN [sum |-> <<>>, err |-> ErrNoXattr]
    ELSE [sum |-> Metadata(fileRecord(n)), err |-> NoErr]

\* ------------------------------------------------------------------- queue
\* A nodeQueue is a linked list of nodeQueueElements.  elems[k] is the k-th
\* element allocated: node is its result channel (the index of the input, 0
\* for the first, empty element), next the contents of its buffered channel
\* of capacity 1 (indices of elements), closed whether that channel is closed.
\* front and back are the elements q.front and q.back point to.
newNodeQueue ==
    [elems |-> <<[node |-> 0, next |-> <<>>, closed |-> FALSE]>>, front |-> 1, back |-> 1]

\* an enqueue at the wrong end: the element is put before the pending ones
enqueueFront(q, ch) ==
    [q EXCEPT !.elems = Append([@ EXCEPT ![q.back].next = <<Len(q.elems) + 1>>],
                               [node |-> ch, next |-> q.elems[q.back].next, closed |-> FALSE])]

\* nodeQueue.enqueue up to the send: elem := &nodeQueueElement{...}; q.front.next <- elem
enqueue(q, ch) ==
    [q EXCEPT !.elems = Append([@ EXCEPT ![q.front].next = Append(@, Len(q.elems) + 1)],
                               [node |-> ch, next |-> <<>>, closed |-> FALSE])]

\* the send of enqueue does not block: the buffer of q.front.next has room
CanSend(q) == Len(q.elems[q.front].next) < 1 /\ ~q.elems[q.front].closed

\* the last statement of enqueue: q.front = elem
setFront(q) == [q EXCEPT !.front = Len(q.elems)]

\* nodeQueue.close: close(q.front.next)
close(q) == [q EXCEPT !.elems[q.front].closed = TRUE]

\* a dequeue that returns nil as soon as any channel of the queue is closed
ReceivesNilClosed(q) == \E k \in 1..Len(q.elems) : q.elems[k].closed

\* nodeQueue.dequeue receives nil: q.back.next is closed and its buffer is empty
ReceivesNil(q) == q.elems[q.back].next = <<>> /\ q.elems[q.back].closed

\* a dequeue that leaves q.back where it is
dequeueStay(q) == [q EXCEPT !.elems[q.back].next = Tail(@)]

\* nodeQueue.dequeue up to q.back = back, when an element is received
dequeue(q) ==
    [q EXCEPT !.elems[q.back].next = Tail(@), !.back = Head(q.elems[q.back].next)]

\* ------------------------------------------------- the callback of Each
\* Each has not returned
Running == [done |-> FALSE, err |-> NoErr]

\* Each returned err (nil is NoErr)
Returns(err) == [done |-> TRUE, err |-> err]

\* the closure Find passes to EachList: it fails with n.Err if there is one
FindFn(n) == n.err

\* what a callback fn may return for node n: nil, an error of its own, or,
\* as the closure of Find does, the error of the node
FnResults(n) == {NoErr, Cause("callback failed"), FindFn(n)}

\* a loop that goes on after the callback failed
LoopOn(e) == "dequeue"

\* the loop of Each after fn returned e: return err, or the next dequeue
LoopAfter(e) == IF e # NoErr THEN "done" ELSE "dequeue"

\* ----------------------------------------------------------- mask parsing
\* A string is a sequence of one-character strings.  Mode and Attr are uint16.
Strings(alphabet, n) == UNION {[1..k -> alphabet] : k \in 0..n}

\* the value of a digit in base 16, or -1
HexVal(c) ==
    CASE c = "0" -> 0 [] c = "1" -> 1 [] c = "2" -> 2 [] c = "3" -> 3
      [] c = "4" -> 4 [] c = "5" -> 5 [] c = "6" -> 6 [] c = "7" -> 7
      [] c = "8" -> 8 [] c = "9" -> 9
      [] c \in {"a", "A"} -> 10 [] c \in {"b", "B"} -> 11 [] c \in {"c", "C"} -> 12
      [] c \in {"d", "D"} -> 13 [] c \in {"e", "E"} -> 14 [] c \in {"f", "F"} -> 15
      [] OTHER -> -1

\* the number written by the digits of s in the base given
Number(s, base) ==
    LET v[n \in 0..Len(s)] == IF n = 0 THEN 0 ELSE v[n - 1] * base + HexVal(s[n])
    IN  v[Len(s)]

IsDigits(s, base) == \A k \in 1..Len(s) : HexVal(s[k]) >= 0 /\ HexVal(s[k]) < base

\* the position of a character in the string, or 0
IndexOf(s, c) == IF \E k \in 1..Len(s) : s[k] = c THEN CHOOSE k \in 1..Len(s) : s[k] = c /\ \A j \in 1..(k - 1) : s[j] # c ELSE 0

\* strings.TrimSpace
TrimSpace(s) ==
    LET keep == {k \in 1..Len(s) : s[k] # " "}
    IN  IF keep = {} THEN <<>>
        ELSE SubSeq(s, CHOOSE a \in keep : \A k \in keep : a <= k,
                       CHOOSE b \in keep : \A k \in keep : b >= k)

\* the results of the parsers: the value, the error message ("" for nil),
\* and whether the call panicked instead of returning
Ok(v) == [val |-> v, err |-> "", panic |-> FALSE]
Fail(v, msg) == [val |-> v, err |-> msg, panic |-> FALSE]
Panic(msg) == [val |-> 0, err |-> msg, panic |-> TRUE]

\* the bit of each option letter of attrRep in Attr (1 << iota)
\* Attr constants numbered without the two reserved places
AttrBitDense == [u |-> 0, g |-> 1, t |-> 2, c |-> 3, s |-> 4, x |-> 5,
                 i |-> 6, n |-> 7, e |-> 8, l |-> 9]

\* the bit of each Attr constant (1 << iota), by the letter attrRep gives it
AttrBit == [u |-> 0, g |-> 1, t |-> 3, c |-> 4, s |-> 6, x |-> 7,
            i |-> 8, n |-> 9, e |-> 10, l |-> 11]

\* a NewAttrString that passes over the letters attrRep does not hold
NewAttrStringLenient(s) ==
    LET bits == {AttrBit[s[k]] : k \in {j \in 1..Len(s) : s[j] \in AttrLetters}}
        v[b \in 0..15] == (IF b \in bits THEN 2^b ELSE 0) + (IF b = 0 THEN 0 ELSE v[b - 1])
    IN  Ok(v[15])

\* NewAttrString
NewAttrString(s) ==
    IF \E k \in 1..Len(s) : s[k] \notin AttrLetters
    THEN Fail(0, "invalid attribute")
    ELSE LET bits == {AttrBit[s[k]] : k \in 1..Len(s)}
             v[b \in 0..15] == (IF b \in bits THEN 2^b ELSE 0) + (IF b = 0 THEN 0 ELSE v[b - 1])
         IN  Ok(v[15])

\* NewAttrHex: hex.DecodeString, at most two bytes, big endian
NewAttrHex(s) ==
    IF Len(s) % 2 # 0 THEN Fail(0, "invalid hex attribute length")
    ELSE IF ~IsDigits(s, 16) THEN Fail(0, "invalid hex attribute")
    ELSE Ok(Number(SubSeq(s, 1, IF Len(s) > 4 THEN 4 ELSE Len(s)), 16))

\* NewModeString: strconv.ParseUint(s, 8, 12)
NewModeString(s) ==
    IF s = <<>> THEN Ok(0)
    ELSE IF ~IsDigits(s, 8) \/ Number(s, 8) >= 2^12 THEN Fail(0, "invalid mode")
    ELSE Ok(Number(s, 8))

\* NewModeHex: hex.DecodeString("0" + s)
NewModeHex(s) ==
    IF Len(s) # 3 THEN Fail(0, "invalid hex mode length")
    ELSE IF ~IsDigits(s, 16) THEN Fail(0, "invalid hex mode")
    ELSE Ok(Number(s, 16))

\* NewMaskString: strings.SplitN(s, "+", 2), the mode and the attributes
NewMaskString(s) ==
    LET plus == IndexOf(s, "+")
        mode == TrimSpace(IF plus = 0 THEN s ELSE SubSeq(s, 1, plus - 1))
        attrs == IF plus = 0 THEN <<>> ELSE SubSeq(s, plus + 1, Len(s))
        m == NewModeString(mode)
        a == NewAttrString(attrs)
    IN  IF m.err # "" THEN Fail([mode |-> 0, attr |-> 0], m.err)
        ELSE [val |-> [mode |-> m.val, attr |-> a.val], err |-> a.err, panic |-> FALSE]

\* NewMaskHex: the code letter, three hex digits of mode, the attributes;
\* s[1:4] is out of range for a string of three bytes
NewMaskHex(s) ==
    IF Len(s) < 3 THEN Fail([mode |-> 0, attr |-> 0], "mask too short")
    ELSE IF s[1] \notin {"a", "A"} THEN Fail([mode |-> 0, attr |-> 0], "invalid mask code")
    ELSE IF Len(s) < 4 THEN Panic("slice bounds out of range")
    ELSE LET m == NewModeHex(SubSeq(s, 2, 4))
             a == NewAttrHex(SubSeq(s, 5, Len(s)))
         IN  IF m.err # "" THEN Fail([mode |-> 0, attr |-> 0], m.err)
             ELSE [val |-> [mode |-> m.val, attr |-> a.val], err |-> a.err, panic |-> FALSE]

\* the digits fmt and encoding/hex write, by value
Digits == <<"0", "1", "2", "3", "4", "5", "6", "7", "8", "9", "a", "b", "c", "d", "e", "f">>

\* the number of digits of n in the base given (1 for 0)
NumDigits(n, base) ==
    CHOOSE d \in 1..16 : n < base ^ d /\ (d = 1 \/ n >= base ^ (d - 1))

\* n written in the base given with at least width digits, zero padded
Format(n, base, width) ==
    LET d == IF NumDigits(n, base) > width THEN NumDigits(n, base) ELSE width
    IN  [k \in 1..d |-> Digits[((n \div (base ^ (d - k))) % base) + 1]]

\* a Mode.String without padding: fmt.Sprintf("%o", m)
ModeStringUnpadded(m) == Format(m, 8, 1)

\* Mode.String: fmt.Sprintf("%04o", m)[:4]
ModeString(m) == SubSeq(Format(m, 8, 4), 1, 4)

\* a Mode.Hex that keeps all four digits of the two bytes
ModeHexFull(m) == Format(m, 16, 4)

\* Mode.Hex: the two bytes, big endian, in hex, without the first digit
ModeHex(m) == SubSeq(Format(m % 65536, 16, 4), 2, 4)

\* the letters of attrRep in their order
attrRep == <<"u", "g", "s", "t", "c", "x", "i", "n", "e", "l">>

\* bit b is set in number a
HasBit(a, b) == (a \div (2 ^ b)) % 2 = 1

\* Attr.String: the letter of every set flag, in the order of attrRep
AttrString(a) ==
    LET out[k \in 0..Len(attrRep)] ==
            IF k = 0 THEN <<>>
            ELSE IF HasBit(a, AttrBit[attrRep[k]]) THEN Append(out[k - 1], attrRep[k])
            ELSE out[k - 1]
    IN  out[Len(attrRep)]

\* an Attr.Hex that writes the two bytes little endian
AttrHexLittleEndian(a) ==
    SubSeq(Format(a % 65536, 16, 4), 3, 4) \o SubSeq(Format(a % 65536, 16, 4), 1, 2)

\* Attr.Hex: the two bytes, big endian, in hex
AttrHex(a) == Format(a % 65536, 16, 4)

\* Mask.String
MaskString(m) ==
    IF AttrString(m.attr) = <<>> THEN ModeString(m.mode)
    ELSE ModeString(m.mode) \o <<"+">> \o AttrString(m.attr)

\* Mask.Hex: fmt.Sprintf("%x%s%s", 0xa, m.Mode.Hex(), m.Attr.Hex())
MaskHex(m) == <<"a">> \o ModeHex(m.mode) \o AttrHex(m.attr)

\* no function has been called
NoCall == [fn |-> "", arg |-> <<>>, ret |-> Ok(0)]

\* ------------------------------------------------------------------ state
VARIABLES
    files,      \* the inputs sent on the files channel, in order
    cap,        \* capacity of Sum.Semaphore
    noDirs,     \* Sum.NoDirs
    sem,        \* permits of the semaphore currently held
    W,          \* the walkFile invocations started so far
    wg,         \* wg[k]: counter of the WaitGroup of input k in Each
    prod,       \* the producer goroutine of Each: [pc, next]
    queue,      \* the nodeQueue: [elems, front, back]
    cons,       \* the consumer loop of Each: [pc, slot]
    out,        \* the nodes handed to the callback fn, in order
    eachRet,    \* what Each returned: [done, err], Running until it returns
    retOrder,   \* inputs in the order their top-level walkFile returned
    call        \* a call of a function of the package: [fn, arg, ret, panic]

vars == <<files, cap, noDirs, sem, W, wg, prod, queue, cons, out, eachRet, retOrder, call>>

Walkers == 1..Len(W)

\* the os.FileInfo of a walker that has not called file.stat yet
NoInfo == [mode |-> {}, sys |-> <<>>, xattr |-> <<>>]

\* a walkFile invocation at its first statement
NewWalker(file, subdir, input, caller, parent) ==
    [file |-> file, subdir |-> subdir, input |-> input, caller |-> caller,
     parent |-> parent, pc |-> "acquire", rOnce |-> TRUE, sOnce |-> TRUE,
     swg |-> 0, nwg |-> 0, closer |-> "none", chan |-> <<>>, hashes |-> <<>>,
     callee |-> 0, fi |-> NoInfo, node |-> NilNode, acq |-> 0, rel |-> 0, fired |-> 0]

Holds(w) == w.acq - w.rel

\* the inputs a run may be given: up to MaxInputs consecutive entries of Inputs
Inputs == <<
    File(2, Mask({8, 7}, {})),
    File(1, Mask({}, {})),
    File(7, Mask({}, {"l"})),
    File(5, Mask({}, {})),
    File(10, Mask({8}, {"i", "u"})),
    File(6, Mask({}, {})),
    File(14, Mask({}, {})),
    File(15, Mask({}, {"i"})),
    File(16, Mask({}, {})) >>

InputSeqs ==
    {[k \in 1..n |-> Inputs[((s + k - 2) % Len(Inputs)) + 1]] :
        s \in 1..Len(Inputs), n \in 1..MaxInputs}

Init ==
    /\ files \in InputSeqs
    /\ cap \in 1..MaxCap
    /\ noDirs \in BOOLEAN
    /\ sem = 0
    /\ W = <<>>
    /\ wg = [k \in 1..Len(files) |-> 0]
    /\ prod = [pc |-> "recv", next |-> 1]
    /\ queue = newNodeQueue
    /\ cons = [pc |-> "dequeue", slot |-> 0]
    /\ out = <<>>
    /\ eachRet = Running
    /\ retOrder = <<>>
    /\ call = NoCall

\* ------------------------------------------------------ semaphore, latches
\* an Acquire that never blocks
CanAcquireAlways(held, size) == TRUE

\* semaphore.Weighted.Acquire(ctx, 1) returns only when a permit is free
CanAcquire(held, size) == held < size

\* a Wait that never blocks
WaitSkips(counter) == TRUE

\* sync.WaitGroup.Wait returns only when the counter is zero
WaitDone(counter) == counter = 0

\* a latch that Do leaves set
DoFlagStuck(rs) == rs

\* doOnce.Do: the value of the latch after Do ran on a set latch
DoFlag(rs) == FALSE

\* The walker steps below transform S = [W, sem, wg].
\* sched(): wg.Done of the input (top level) or swg.Done of the parent's walkDir
SchedDone(S, i) ==
    IF S.W[i].parent = 0
    THEN [S EXCEPT !.wg[S.W[i].input] = @ - 1]
    ELSE [S EXCEPT !.W[S.W[i].parent].swg = @ - 1]

\* sOnce.Do(sched)
FireSched(S, i) ==
    IF S.W[i].sOnce
    THEN SchedDone([S EXCEPT !.W[i].sOnce = DoFlag(TRUE), !.W[i].fired = @ + 1], i)
    ELSE S

\* the follow case without its sOnce.Do(nil)
SuppressNothing(S, i) == S

\* sOnce.Do(nil)
SuppressSched(S, i) ==
    IF S.W[i].sOnce THEN [S EXCEPT !.W[i].sOnce = DoFlag(TRUE)] ELSE S

\* rOnce.Do(s.releaseCPU)
Release(S, i) ==
    IF S.W[i].rOnce
    THEN [S EXCEPT !.W[i].rOnce = DoFlag(TRUE), !.W[i].rel = @ + 1, !.sem = @ - 1]
    ELSE S

\* a descent that keeps the permit
NoDescentRelease(S, i) == S

\* the release before the descent into a directory
DescentRelease(S, i) == Release(S, i)

\* a return that leaves out the deferred sOnce.Do(sched) when the node is an error
ReturnUnsignalled(S, i, node) ==
    LET T == IF node.err # NoErr THEN Release(S, i) ELSE Release(FireSched(S, i), i)
    IN  [T EXCEPT !.W[i].pc = "ret", !.W[i].node = node]

\* a return that leaves the release of the permit to after the delivery
ReturnHolding(S, i, node) ==
    LET T == FireSched(S, i)
    IN  [T EXCEPT !.W[i].pc = "ret", !.W[i].node = node]

\* return node: the deferred sOnce.Do(sched) runs first, then rOnce.Do(s.releaseCPU)
Return(S, i, node) ==
    LET T == Release(FireSched(S, i), i)
    IN  [T EXCEPT !.W[i].pc = "ret", !.W[i].node = node]

Cur == [W |-> W, sem |-> sem, wg |-> wg]

IsRoot(w) == w.caller = 0 /\ w.parent = 0

Apply(next) ==
    \E T \in {next} :
        /\ W' = T.W
        /\ sem' = T.sem
        /\ wg' = T.wg
        /\ retOrder' = retOrder \o
              (IF \E i \in Walkers : IsRoot(W[i]) /\ W[i].pc # "ret" /\ T.W[i].pc = "ret"
               THEN <<W[CHOOSE i \in Walkers : IsRoot(W[i]) /\ W[i].pc # "ret" /\ T.W[i].pc = "ret"].input>>
               ELSE <<>>)

\* ----------------------------------------------------------------- walker
\* every file takes its own metadata into its digest
inclusiveAlways(f) == TRUE

inclusive(f) == "i" \in f.mask.attr
\* names are never left out
portableNever(f) == FALSE

portable(f) == "n" \in f.mask.attr
\* links are followed on request only
followFlagOnly(f, subdir) == "l" \in f.mask.attr

follow(f, subdir) == "l" \in f.mask.attr \/ (~inclusive(f) /\ ~subdir)
noData(f, subdir) == "e" \in f.mask.attr /\ (inclusive(f) \/ subdir)

WithAttr(f, attr) == [f EXCEPT !.mask.attr = attr]

\* what file.stat, getSys and file.xattr return for file f
StatInfo(f) ==
    [mode |-> FS[f.path].mode, sys |-> getSys(f.path),
     xattr |-> IF "x" \in f.mask.attr THEN <<getXattr(f.path)>> ELSE <<>>]

\* the end of walkFile without the inclusive hash
\* an end of walkFile that wraps the digest of every entry under an i mask
FinishNodeWrapAll(f, sub, sum, fi) ==
    LET n == Node(f, sum, fi.mode, fi.sys, fi.xattr, NoErr)
        r == hashFileAttr(n)
    IN  IF inclusive(f)
        THEN IF r.err # NoErr
             THEN newFileErrorNode("hash metadata for file", f, sub, r.err)
             ELSE [n EXCEPT !.sum = r.sum]
        ELSE n

FinishNodePlain(f, sub, sum, fi) == Node(f, sum, fi.mode, fi.sys, fi.xattr, NoErr)

\* the end of walkFile: the node with Sum, Mode, Sys, Xattr, and the inclusive hash
FinishNode(f, sub, sum, fi) ==
    LET n == Node(f, sum, fi.mode, fi.sys, fi.xattr, NoErr)
        r == hashFileAttr(n)
    IN  IF inclusive(f) /\ ~sub
        THEN IF r.err # NoErr
             THEN newFileErrorNode("hash metadata for file", f, sub, r.err)
             ELSE [n EXCEPT !.sum = r.sum]
        ELSE n

\* the default case of the earlier walkFile: a special file at the top level
\* without i is refused
DataNodeSkipSpecial(f, sub, fi) ==
    IF fi.mode \cap ModeType # {} /\ ModeBit.symlink \notin fi.mode
       /\ ~inclusive(f) /\ ~sub
    THEN Node(f, <<>>, {}, <<>>, <<>>, newFileError("", f.path, sub, ErrSpecialFile))
    ELSE IF ModeBit.symlink \in fi.mode
    THEN IF noData(f, sub)
         THEN FinishNode(WithAttr(f, (f.mask.attr \ {"n"}) \cup {"e"}), sub, <<>>, fi)
         ELSE FinishNode(WithAttr(f, f.mask.attr \ {"n", "e"}), sub,
                         Metadata(FS[f.path].data), fi)
    ELSE IF noData(f, sub) \/ (fi.mode \cap ModeType # {} /\ (inclusive(f) \/ sub))
    THEN FinishNode(WithAttr(f, (f.mask.attr \ {"n"}) \cup {"e"}), sub, <<>>, fi)
    ELSE IF ~FS[f.path].ok
    THEN newFileErrorNode("hash", WithAttr(f, f.mask.attr \ {"n", "e"}), sub,
                          Cause("permission denied"))
    ELSE FinishNode(WithAttr(f, f.mask.attr \ {"n", "e"}), sub, HashFile(f.path), fi)

\* a default case that returns the mask as it was given
DataNodeMaskKept(f, sub, fi) ==
    LET e == FS[f.path]
        regular == fi.mode \cap ModeType = {}
    IN  IF ModeBit.symlink \in fi.mode
        THEN IF noData(f, sub) THEN FinishNode(f, sub, <<>>, fi)
             ELSE FinishNode(f, sub, Metadata(e.data), fi)
        ELSE IF noData(f, sub) \/ (~regular /\ (inclusive(f) \/ sub))
        THEN FinishNode(f, sub, <<>>, fi)
        ELSE IF ~e.ok
        THEN newFileErrorNode("hash", f, sub, Cause("permission denied"))
        ELSE FinishNode(f, sub, HashFile(f.path), fi)

\* the symlink case without follow and the default case: os.Readlink or file.sum
DataNode(f, sub, fi) ==
    LET e == FS[f.path]
        a == f.mask.attr \ {"n"}
        regular == fi.mode \cap ModeType = {}
    IN  IF ModeBit.symlink \in fi.mode
        THEN IF noData(f, sub)
             THEN FinishNode(WithAttr(f, a \cup {"e"}), sub, <<>>, fi)
             ELSE FinishNode(WithAttr(f, a \ {"e"}), sub, Metadata(e.data), fi)
        ELSE IF noData(f, sub) \/ (~regular /\ (inclusive(f) \/ sub))
        THEN FinishNode(WithAttr(f, a \cup {"e"}), sub, <<>>, fi)
        ELSE IF ~e.ok
        THEN newFileErrorNode("hash", WithAttr(f, a \ {"e"}), sub, Cause("permission denied"))
        ELSE FinishNode(WithAttr(f, a \ {"e"}), sub, HashFile(f.path), fi)

\* an iteration that wraps the child's error in every directory
RangeOneWrap(f, sub, hashes, n) ==
    LET r == hashFileAttr(n)
        name == IF ~portable(f) THEN FS[n.path].name ELSE <<>>
    IN  IF n.err # NoErr
        THEN [ret |-> TRUE, hashes |-> hashes, node |-> newFileErrorNode("", f, sub, n.err)]
        ELSE [ret |-> FALSE, hashes |-> Append(hashes, [hash |-> r.sum, name |-> name]),
              node |-> NilNode]

\* one iteration of `for n := range nodes` on child node n: the node to return
\* with (ret), or the hashes with the child's entry appended
RangeOne(f, sub, hashes, n) ==
    LET r == hashFileAttr(n)
        name == IF ~portable(f) THEN FS[n.path].name ELSE <<>>
    IN  IF n.err # NoErr
        THEN [ret |-> TRUE, hashes |-> hashes,
              node |-> IF sub THEN Node(f, <<>>, {}, <<>>, <<>>, n.err)
                       ELSE newFileErrorNode("", f, sub, n.err)]
        ELSE IF r.err # NoErr
        THEN [ret |-> TRUE, hashes |-> hashes,
              node |-> newFileErrorNode("hash metadata for file", f, sub, r.err)]
        ELSE [ret |-> FALSE, hashes |-> Append(hashes, [hash |-> r.sum, name |-> name]),
              node |-> NilNode]

\* the directory digest: TreeASN1DER of the entries, hashed
TreeSum(hashes) == Metadata(TreeASN1DER(HashSHA256, hashes))

\* s.acquireCPU() at the entry of walkFile
Acquire(i) ==
    /\ W[i].pc = "acquire"
    /\ CanAcquire(sem, cap)
    /\ Apply([Cur EXCEPT !.W[i].pc = "stat", !.W[i].acq = @ + 1, !.sem = @ + 1])
    /\ UNCHANGED <<call, files, cap, noDirs, prod, queue, cons, out, eachRet>>

\* a dispatch that reads directories whether NoDirs is set or not
StatWalksDirs(i) ==
    /\ W[i].pc = "stat"
    /\ LET f == W[i].file
           e == FS[f.path]
           sub == W[i].subdir
           S1 == [Cur EXCEPT !.W[i].fi = StatInfo(f)]
       IN  Apply(
             CASE e.kind = "missing" ->
                    Return(Cur, i, newFileErrorNode("", f, sub, Cause("no such file or directory")))
               [] e.kind = "dir" ->
                    [S1 EXCEPT !.W[i].pc = "readdir"]
               [] e.kind = "symlink" /\ follow(f, sub) ->
                    [S1 EXCEPT !.W[i].pc = "evalsym"]
               [] OTHER ->
                    LET T == FireSched(S1, i) IN [T EXCEPT !.W[i].pc = "data"])
    /\ UNCHANGED <<call, files, cap, noDirs, prod, queue, cons, out, eachRet>>

\* validateMask, file.stat, getSys, file.xattr and the dispatch on the entry kind
Stat(i) ==
    /\ W[i].pc = "stat"
    /\ LET f == W[i].file
           e == FS[f.path]
           sub == W[i].subdir
           S1 == [Cur EXCEPT !.W[i].fi = StatInfo(f)]
       IN  Apply(
             CASE e.kind = "missing" ->
                    Return(Cur, i, newFileErrorNode("", f, sub, Cause("no such file or directory")))
               [] e.kind = "dir" /\ noDirs ->
                    Return(S1, i, newFileErrorNode("", f, sub, ErrDirectory))
               [] e.kind = "dir" /\ ~noDirs ->
                    [S1 EXCEPT !.W[i].pc = "readdir"]
               [] e.kind = "symlink" /\ follow(f, sub) ->
                    [S1 EXCEPT !.W[i].pc = "evalsym"]
               [] OTHER ->
                    LET T == FireSched(S1, i) IN [T EXCEPT !.W[i].pc = "data"])
    /\ UNCHANGED <<call, files, cap, noDirs, prod, queue, cons, out, eachRet>>

\* readDirUnordered, the release of the permit, and the goroutines of walkDir
ReadDir(i) ==
    /\ W[i].pc = "readdir"
    /\ LET f == W[i].file
           e == FS[f.path]
       IN  IF ~e.ok
           THEN Apply(Return(Cur, i,
                     newFileErrorNode("read dir", f, W[i].subdir, Cause("permission denied"))))
           ELSE \E names \in Perms(e.kids) :
                  LET S1 == DescentRelease(Cur, i)
                      n == Len(names)
                      kids == [k \in 1..n |->
                                 NewWalker(File(names[k], f.mask), TRUE, W[i].input, 0, i)]
                  IN  Apply([S1 EXCEPT !.W = [@ EXCEPT ![i].pc = "walkdir", ![i].swg = n,
                                                       ![i].nwg = n, ![i].closer = "wait"]
                                              \o kids])
    /\ UNCHANGED <<call, files, cap, noDirs, prod, queue, cons, out, eachRet>>

\* walkDir returns when swg.Wait does; then sOnce.Do(sched)
WalkDirRet(i) ==
    /\ W[i].pc = "walkdir"
    /\ WaitDone(W[i].swg)
    /\ Apply(LET T == FireSched(Cur, i) IN [T EXCEPT !.W[i].pc = "range"])
    /\ UNCHANGED <<call, files, cap, noDirs, prod, queue, cons, out, eachRet>>

\* the goroutine of walkDir that closes the nodes channel: nwg.Wait(); close(nodes)
CloseNodes(i) ==
    /\ W[i].closer = "wait"
    /\ WaitDone(W[i].nwg)
    /\ Apply([Cur EXCEPT !.W[i].closer = "done"])
    /\ UNCHANGED <<call, files, cap, noDirs, prod, queue, cons, out, eachRet>>

\* one iteration of `for n := range nodes`
Range(i) ==
    /\ W[i].pc = "range"
    /\ W[i].chan # <<>>
    /\ LET S1 == [Cur EXCEPT !.W[i].chan = Tail(@)]
           r == RangeOne(W[i].file, W[i].subdir, W[i].hashes, Head(W[i].chan))
       IN  Apply(IF r.ret
                 THEN Return(S1, i, r.node)
                 ELSE [S1 EXCEPT !.W[i].hashes = r.hashes])
    /\ UNCHANGED <<call, files, cap, noDirs, prod, queue, cons, out, eachRet>>

\* a range loop that ends when the nodes channel is empty, closed or not
RangeEndEarly(i) ==
    /\ W[i].pc = "range"
    /\ W[i].chan = <<>>
    /\ \E sum \in {TreeSum(W[i].hashes)} :
           Apply(Return(Cur, i, FinishNode(W[i].file, W[i].subdir, sum, W[i].fi)))
    /\ UNCHANGED <<call, files, cap, noDirs, prod, queue, cons, out, eachRet>>

\* the nodes channel is closed and drained: TreeASN1DER and the directory digest
RangeEnd(i) ==
    /\ W[i].pc = "range"
    /\ W[i].chan = <<>>
    /\ W[i].closer = "done"
    /\ \E sum \in {TreeSum(W[i].hashes)} :
           Apply(Return(Cur, i, FinishNode(W[i].file, W[i].subdir, sum, W[i].fi)))
    /\ UNCHANGED <<call, files, cap, noDirs, prod, queue, cons, out, eachRet>>

\* the error of filepath.EvalSymlinks on a link that resolves to nothing: the
\* link text names a missing entry, or the links lead back to one another
EvalSymlinksErr(p) ==
    IF FS[FS[p].data[1]].kind = "missing"
    THEN Cause("no such file or directory")
    ELSE Cause("too many links")

\* filepath.EvalSymlinks and the call of walkFile on the target
EvalSym(i) ==
    /\ W[i].pc = "evalsym"
    /\ FS[W[i].file.path].target # NoPath => Len(W) < MaxWalkers
    /\ LET f == W[i].file
           link == FS[f.path].target
       IN  Apply(
             IF link = NoPath
             THEN Return(Cur, i, newFileErrorNode("", f, W[i].subdir,
                                                  EvalSymlinksErr(f.path)))
             ELSE LET S1 == SuppressSched(Release(Cur, i), i)
                  IN  [S1 EXCEPT !.W = [@ EXCEPT ![i].pc = "call", ![i].callee = Len(W) + 1]
                                       \o <<NewWalker(File(link, f.mask), W[i].subdir,
                                                      W[i].input, i, W[i].parent)>>])
    /\ UNCHANGED <<call, files, cap, noDirs, prod, queue, cons, out, eachRet>>

\* a return from the follow case that leaves the path of the target in the node
FollowRetTargetPath(i) ==
    /\ W[i].pc = "call"
    /\ W[W[i].callee].pc = "ret"
    /\ LET j == W[i].callee
           S1 == [Cur EXCEPT !.W[j].pc = "done"]
       IN  Apply(Return(S1, i, W[j].node))
    /\ UNCHANGED <<call, files, cap, noDirs, prod, queue, cons, out, eachRet>>

\* the call on the target returned: n.Path = path; return n
FollowRet(i) ==
    /\ W[i].pc = "call"
    /\ W[W[i].callee].pc = "ret"
    /\ LET j == W[i].callee
           S1 == [Cur EXCEPT !.W[j].pc = "done"]
       IN  Apply(Return(S1, i, [W[j].node EXCEPT !.path = W[i].file.path]))
    /\ UNCHANGED <<call, files, cap, noDirs, prod, queue, cons, out, eachRet>>

\* the symlink case without follow and the default case, up to the return
Data(i) ==
    /\ W[i].pc = "data"
    /\ Apply(Return(Cur, i, DataNode(W[i].file, W[i].subdir, W[i].fi)))
    /\ UNCHANGED <<call, files, cap, noDirs, prod, queue, cons, out, eachRet>>

\* a goroutine of walkDir: nodes <- s.walkFile(...), then the deferred nwg.Done()
Send(i) ==
    /\ W[i].pc = "ret"
    /\ W[i].caller = 0
    /\ W[i].parent # 0
    /\ Apply([Cur EXCEPT !.W[i].pc = "done",
                         !.W[W[i].parent].chan = Append(@, W[i].node),
                         !.W[W[i].parent].nwg = @ - 1])
    /\ UNCHANGED <<call, files, cap, noDirs, prod, queue, cons, out, eachRet>>

\* ------------------------------------------------------------------- Each
\* the producer receives a file: nodeRec is made and enqueue sends its element
ProdEnqueue ==
    /\ prod.pc = "recv"
    /\ prod.next <= Len(files)
    /\ CanSend(queue)
    /\ queue' = enqueue(queue, prod.next)
    /\ prod' = [prod EXCEPT !.pc = "front"]
    /\ UNCHANGED <<call, files, cap, noDirs, sem, W, wg, cons, out, eachRet, retOrder>>

\* enqueue returns after q.front = elem; wg.Add(1); go walkFile
ProdStart ==
    /\ prod.pc = "front"
    /\ queue' = setFront(queue)
    /\ Apply([Cur EXCEPT !.wg[prod.next] = 1,
                         !.W = Append(@, NewWalker(files[prod.next], FALSE, prod.next, 0, 0))])
    /\ prod' = [prod EXCEPT !.pc = "wait"]
    /\ UNCHANGED <<call, files, cap, noDirs, cons, out, eachRet>>

\* wg.Wait() returns and the loop goes on to the next file
ProdWait ==
    /\ prod.pc = "wait"
    /\ WaitDone(wg[prod.next])
    /\ prod' = [pc |-> "recv", next |-> prod.next + 1]
    /\ UNCHANGED <<call, files, cap, noDirs, sem, W, wg, queue, cons, out, eachRet, retOrder>>

\* the files channel is closed: queue.close()
ProdClose ==
    /\ prod.pc = "recv"
    /\ prod.next > Len(files)
    /\ queue' = close(queue)
    /\ prod' = [prod EXCEPT !.pc = "done"]
    /\ UNCHANGED <<call, files, cap, noDirs, sem, W, wg, cons, out, eachRet, retOrder>>

\* EachList: Each returned and cancelled ctx; the feeder takes the ctx.Done()
\* case and closes the files channel before it sent every file; queue.close()
ProdCancel ==
    /\ prod.pc = "recv"
    /\ prod.next <= Len(files)
    /\ eachRet.done
    /\ queue' = close(queue)
    /\ prod' = [prod EXCEPT !.pc = "done"]
    /\ UNCHANGED <<call, files, cap, noDirs, sem, W, wg, cons, out, eachRet, retOrder>>

\* nodeQueue.dequeue receives nil from the closed, drained channel q.back.next
\* and returns nil; Each returns nil
DequeueNil ==
    /\ cons.pc = "dequeue"
    /\ ReceivesNil(queue)
    /\ cons' = [pc |-> "done", slot |-> 0]
    /\ eachRet' = Returns(NoErr)
    /\ UNCHANGED <<call, files, cap, noDirs, sem, W, wg, prod, queue, out, retOrder>>

\* nodeQueue.dequeue: back := <-q.back.next; q.back = back
DequeueNext ==
    /\ cons.pc = "dequeue"
    /\ queue.elems[queue.back].next # <<>>
    /\ queue' = dequeue(queue)
    /\ cons' = [pc |-> "node", slot |-> queue'.elems[queue'.back].node]
    /\ UNCHANGED <<call, files, cap, noDirs, sem, W, wg, prod, out, eachRet, retOrder>>

\* nodeQueue.dequeue returns <-q.back.node, the node the top-level goroutine
\* sends on nodeRec; the loop of Each ends if it is nil and calls fn(node)
\* otherwise
DequeueNode ==
    /\ cons.pc = "node"
    /\ \E i \in Walkers :
          /\ IsRoot(W[i])
          /\ W[i].input = cons.slot
          /\ W[i].pc = "ret"
          /\ Apply([Cur EXCEPT !.W[i].pc = "done"])
          /\ IF W[i].node = NilNode
             THEN /\ out' = out
                  /\ cons' = [pc |-> "done", slot |-> 0]
                  /\ eachRet' = Returns(NoErr)
             ELSE /\ out' = Append(out, W[i].node)
                  /\ \E e \in FnResults(W[i].node) :
                        /\ cons' = [pc |-> LoopAfter(e), slot |-> 0]
                        /\ eachRet' = IF e # NoErr THEN Returns(e) ELSE eachRet
    /\ UNCHANGED <<call, files, cap, noDirs, prod, queue>>

AcquireStep == \E i \in Walkers : Acquire(i)
StatStep == \E i \in Walkers : Stat(i)
ReadDirStep == \E i \in Walkers : ReadDir(i)
WalkDirRetStep == \E i \in Walkers : WalkDirRet(i)
CloseNodesStep == \E i \in Walkers : CloseNodes(i)
RangeStep == \E i \in Walkers : Range(i)
RangeEndStep == \E i \in Walkers : RangeEnd(i)
EvalSymStep == \E i \in Walkers : EvalSym(i)
FollowRetStep == \E i \in Walkers : FollowRet(i)
DataStep == \E i \in Walkers : Data(i)
SendStep == \E i \in Walkers : Send(i)

Next ==
    \/ ProdEnqueue
    \/ ProdStart
    \/ ProdWait
    \/ ProdClose
    \/ ProdCancel
    \/ DequeueNext
    \/ DequeueNode
    \/ DequeueNil
    \/ AcquireStep
    \/ StatStep
    \/ ReadDirStep
    \/ WalkDirRetStep
    \/ CloseNodesStep
    \/ RangeStep
    \/ RangeEndStep
    \/ EvalSymStep
    \/ FollowRetStep
    \/ DataStep
    \/ SendStep

Spec == Init /\ [][Next]_vars

\* goroutines that can run are eventually run
FairSpec == Spec /\ WF_vars(Next)

\* ------------------------------------------------- calls of the functions
\* the characters the strings passed to the parsers are made of
HexAlphabet == {"a", "A", "1", "g"}
StringAlphabet == {"7", "8", "+", "u", "g", "z", " "}

\* the state before a function of the package is called: no run of Each
CallInit ==
    /\ files = <<>>
    /\ cap = 1
    /\ noDirs = FALSE
    /\ sem = 0
    /\ W = <<>>
    /\ wg = <<>>
    /\ prod = [pc |-> "recv", next |-> 1]
    /\ queue = newNodeQueue
    /\ cons = [pc |-> "dequeue", slot |-> 0]
    /\ out = <<>>
    /\ eachRet = Running
    /\ retOrder = <<>>
    /\ call = NoCall

run == <<files, cap, noDirs, sem, W, wg, prod, queue, cons, out, eachRet, retOrder>>

\* a caller passes a string to NewMaskHex
CallNewMaskHex ==
    /\ call = NoCall
    /\ \E s \in Strings(HexAlphabet, MaxHexLen) :
          call' = [fn |-> "NewMaskHex", arg |-> s, ret |-> NewMaskHex(s)]
    /\ UNCHANGED run

\* a caller passes a string to NewMaskString
CallNewMaskString ==
    /\ call = NoCall
    /\ \E s \in Strings(StringAlphabet, MaxStringLen) :
          call' = [fn |-> "NewMaskString", arg |-> s, ret |-> NewMaskString(s)]
    /\ UNCHANGED run

\* the nodes a caller may hand to hashFileAttr: the modes of a regular file,
\* with and without the setuid bit, of symlinks, a directory, a fifo and a
\* character device; Sys and Xattr as getSys and getXattr return them, or
\* nil; a content digest or none
CallModes == {{8, 7, 5, 2}, {ModeBit.setuid, 8, 7, 5, 2},
              {ModeBit.symlink, 8, 7, 5, 2}, {ModeBit.symlink, 8, 7, 6},
              {ModeBit.dir, 8, 7, 6}, {ModeBit.pipe, 8, 7},
              {ModeBit.device, ModeBit.chardev, 8}}
CallMasks == {Mask(m, a) : m \in {{}, {8, 7}, 0..11, {sModeSetuid, 5}},
                           a \in SUBSET {"u", "t", "x"}}
CallNodes ==
    {Node(File(1, mask), sum, mode, sys, xattr, NoErr) :
        mask \in CallMasks, sum \in {<<>>, Metadata(<<1>>)}, mode \in CallModes,
        sys \in {<<>>, getSys(1), getSys(5)}, xattr \in {<<>>, <<getXattr(1)>>}}

\* a caller passes a node to hashFileAttr; der is the File record it encodes
CallHashFileAttr ==
    /\ call = NoCall
    /\ \E n \in CallNodes :
          LET r == hashFileAttr(n)
          IN  call' = [fn |-> "hashFileAttr", arg |-> <<n>>,
                       ret |-> IF r.err # NoErr
                               THEN Fail(<<>>, r.err.cause)
                               ELSE Ok([der |-> fileRecord(n), sum |-> r.sum])]
    /\ UNCHANGED run

\* validateMask: nil on POSIX; on Windows masks above 0666 and masks with
\* UID, GID, xattr or special are rejected
validateMask(plat, mask) ==
    IF plat = "windows" /\ mask.mode \cap {sModeSetuid, sModeSetgid, sModeSticky, 6, 3, 0} # {}
    THEN Cause("masks >0666 unsupported on Windows")
    ELSE IF plat = "windows" /\ mask.attr \cap {"u", "g", "x", "s"} # {}
    THEN Cause("masks with UID/GID/xattr/special unsupported on Windows")
    ELSE NoErr

\* a getSys that reports no error and hands out empty fields when the
\* FileInfo carries no stat data
platformSysZeroed(plat, statOk, p) ==
    [sys |-> <<[uid |-> <<>>, gid |-> <<>>, mtime |-> <<>>, ctime |-> <<>>, rdev |-> <<>>]>>,
     err |-> NoErr]

\* getSys on each platform: every field on POSIX, Mtime and Ctime on Windows,
\* ErrNoStat when the FileInfo carries no stat data of the platform
platformSys(plat, statOk, p) ==
    IF ~statOk THEN [sys |-> <<>>, err |-> ErrNoStat]
    ELSE IF plat = "windows"
    THEN [sys |-> <<[uid |-> <<>>, gid |-> <<>>, mtime |-> getSys(p)[1].mtime,
                     ctime |-> getSys(p)[1].ctime, rdev |-> <<>>]>>,
          err |-> NoErr]
    ELSE [sys |-> getSys(p), err |-> NoErr]

\* file.xattr on each platform: ErrNoXattr on Windows, the hashed attributes
\* or the error of the system call on POSIX
platformXattr(plat, xattrOk, p) ==
    IF plat = "windows" THEN [xattr |-> <<>>, err |-> ErrNoXattr]
    ELSE IF ~xattrOk THEN [xattr |-> <<>>, err |-> Cause("operation not supported")]
    ELSE [xattr |-> <<getXattr(p)>>, err |-> NoErr]

\* walkFile up to the switch, for a top-level file whose FileInfo has mode
\* a.mode: validateMask, the Stdin adjustment of the mask, getSys, file.xattr;
\* then the node as the end of walkFile builds it around digest a.sum
walkFileHead(a) ==
    LET v == validateMask(a.plat, a.file.mask)
        file == IF a.stdin THEN WithAttr(a.file, a.file.mask.attr \ {"x"}) ELSE a.file
        sys == platformSys(a.plat, a.statOk, a.file.path)
        xattr == IF "x" \in file.mask.attr
                 THEN platformXattr(a.plat, a.xattrOk, a.file.path)
                 ELSE [xattr |-> <<>>, err |-> NoErr]
    IN  IF v # NoErr
        THEN newFileErrorNode("validate mask for file", a.file, FALSE, v)
        ELSE IF sys.err # NoErr
                /\ ~(sys.err = ErrNoStat /\ file.mask.attr \cap StatAttrs = {})
        THEN newFileErrorNode("stat", file, FALSE, sys.err)
        ELSE IF xattr.err # NoErr
        THEN newFileErrorNode("get xattr", file, FALSE, xattr.err)
        ELSE Node(file, a.sum, a.mode, sys.sys, xattr.xattr, NoErr)

\* the platforms, masks and entries of the calls of walkFile
Platforms == {"posix", "windows"}
HeadMasks == {Mask(m, a) : m \in {{}, {8, 6}}, a \in SUBSET {"u", "g", "s", "t", "c", "x"}}
HeadArgs ==
    [plat : Platforms, stdin : BOOLEAN, statOk : BOOLEAN, xattrOk : BOOLEAN,
     file : {File(1, m) : m \in HeadMasks},
     mode : {{8, 7, 5, 2}, {ModeBit.device, ModeBit.chardev, 8}},
     sum : {Metadata(<<1>>)}]

\* a caller has walkFile stat an entry and encode its File record
CallWalkFileHead ==
    /\ call = NoCall
    /\ \E a \in HeadArgs :
          LET n == walkFileHead(a)
              r == hashFileAttr(n)
          IN  call' = [fn |-> "walkFile", arg |-> <<a>>,
                       ret |-> IF n.err # NoErr THEN Fail(<<n>>, n.err.cause)
                               ELSE IF r.err # NoErr THEN Fail(<<n>>, r.err.cause)
                               ELSE Ok(<<n>>)]
    /\ UNCHANGED run

\* the masks a caller formats: 12-bit modes, attributes out of the ten flags
FormatModes == {0, 1, 7, 8, 63, 64, 420, 493, 511, 512, 2541, 4095}
AttrValue(S) ==
    LET v[b \in 0..15] == (IF \E c \in S : AttrBit[c] = b THEN 2 ^ b ELSE 0)
                           + (IF b = 0 THEN 0 ELSE v[b - 1])
    IN  v[15]
FormatMasks == {[mode |-> m, attr |-> AttrValue(S)] : m \in FormatModes, S \in SUBSET AttrLetters}

\* a caller formats a mask with Mask.String and parses the text again
CallMaskString ==
    /\ call = NoCall
    /\ \E m \in FormatMasks :
          \E str \in {MaskString(m)} :
            call' = [fn |-> "Mask.String", arg |-> <<m>>,
                     ret |-> Ok([text |-> str, parsed |-> NewMaskString(str)])]
    /\ UNCHANGED run

\* a caller formats a mask with Mask.Hex and parses the text again
CallMaskHex ==
    /\ call = NoCall
    /\ \E m \in FormatMasks :
          \E str \in {MaskHex(m)} :
            call' = [fn |-> "Mask.Hex", arg |-> <<m>>,
                     ret |-> Ok([text |-> str, parsed |-> NewMaskHex(str)])]
    /\ UNCHANGED run

\* the letters of a set of options, in the order of attrRep or against it
Letters(S, forward) ==
    LET last == Len(attrRep)
        text[k \in 0..last] ==
            IF k = 0 THEN <<>>
            ELSE LET letter == attrRep[IF forward THEN k ELSE last + 1 - k]
                 IN  IF letter \in S THEN Append(text[k - 1], letter) ELSE text[k - 1]
    IN  text[last]

\* a caller parses the human form of a set of options with NewAttrString and
\* writes the result with Attr.Hex
CallNewAttrString ==
    /\ call = NoCall
    /\ \E S \in SUBSET AttrLetters, forward \in BOOLEAN :
          \E str \in {Letters(S, forward)} :
            \E a \in {NewAttrString(str)} :
              call' = [fn |-> "NewAttrString", arg |-> <<str>>,
                       ret |-> Ok([parsed |-> a, hex |-> AttrHex(a.val)])]
    /\ UNCHANGED run

\* pairs of a human and an opaque mask text that a caller holds
FormPairs ==
    {<<<<"7", "7", "7", "7", "+", "u", "g", "i", "s">>, <<"a", "1", "f", "f", "0", "0", "e", "5">>>>,
     <<<<"7", "7", "7", "7", "+", "u", "g", "i", "s">>, <<"a", "f", "f", "f", "0", "1", "4", "3">>>>,
     <<<<"7", "7", "5", "5", "+", "u", "g", "i", "s">>, <<"a", "f", "e", "d", "0", "1", "4", "3">>>>,
     <<<<"0", "7", "7", "7", "+", "u", "g", "s", "t", "c", "x", "i", "n", "e", "l">>, <<"a", "1", "f", "f", "0", "f", "d", "b">>>>,
     <<<<"4", "3", "2", "1", "+", "u", "l">>, <<"a", "8", "d", "1", "0", "8", "0", "1">>>>,
     <<<<"0", "0", "0", "0", "+", "u">>, <<"a", "0", "0", "0", "0", "0", "0", "1">>>>}

\* a caller parses a human text with NewMaskString and an opaque text with
\* NewMaskHex and formats both masks with String and with Hex
CallMaskForms ==
    /\ call = NoCall
    /\ \E pair \in FormPairs :
          \E h \in {NewMaskString(pair[1])}, o \in {NewMaskHex(pair[2])} :
            /\ h.err = "" /\ o.err = ""
            /\ call' = [fn |-> "MaskForms", arg |-> pair,
                        ret |-> Ok([human |-> h.val, opaque |-> o.val,
                                    humanString |-> MaskString(h.val), humanHex |-> MaskHex(h.val),
                                    opaqueString |-> MaskString(o.val), opaqueHex |-> MaskHex(o.val)])]
    /\ UNCHANGED run

CallNext ==
    \/ CallMaskForms
    \/ CallNewAttrString
    \/ CallNewMaskHex
    \/ CallNewMaskString
    \/ CallHashFileAttr
    \/ CallWalkFileHead
    \/ CallMaskString
    \/ CallMaskHex

CallSpec == CallInit /\ [][CallNext]_vars

\* runs over trees whose symbolic links form a cycle, next to trees without one
CycleInputs == <<
    File(19, Mask({}, {"l"})),
    File(21, Mask({}, {})),
    File(22, Mask({}, {})),
    File(5, Mask({}, {})),
    File(36, Mask({}, {})),
    File(2, Mask({8, 7}, {})) >>

CycleSeqs ==
    {[k \in 1..n |-> CycleInputs[((s + k - 2) % Len(CycleInputs)) + 1]] :
        s \in 1..Len(CycleInputs), n \in 1..MaxInputs}

CycleInit ==
    /\ files \in CycleSeqs
    /\ cap \in 1..MaxCap
    /\ noDirs \in BOOLEAN
    /\ sem = 0
    /\ W = <<>>
    /\ wg = [k \in 1..Len(files) |-> 0]
    /\ prod = [pc |-> "recv", next |-> 1]
    /\ queue = newNodeQueue
    /\ cons = [pc |-> "dequeue", slot |-> 0]
    /\ out = <<>>
    /\ eachRet = Running
    /\ retOrder = <<>>
    /\ call = NoCall

CycleSpec == CycleInit /\ [][Next]_vars

\* runs over two inputs with one mask without the i attribute: entries that
\* differ in their own metadata only, and directories that differ inside
TwinPairs == {<<1, 24>>, <<2, 25>>, <<5, 28>>, <<11, 26>>}
TwinMasks == {Mask({8, 7, 6, 5}, {"u", "t", "x"}), Mask({}, {}), Mask({}, {"t", "s"})}
TwinSeqs == {<<File(pr[1], m), File(pr[2], m)>> : pr \in TwinPairs, m \in TwinMasks}

TwinInit ==
    /\ files \in TwinSeqs
    /\ cap \in 1..MaxCap
    /\ noDirs \in BOOLEAN
    /\ sem = 0
    /\ W = <<>>
    /\ wg = [k \in 1..Len(files) |-> 0]
    /\ prod = [pc |-> "recv", next |-> 1]
    /\ queue = newNodeQueue
    /\ cons = [pc |-> "dequeue", slot |-> 0]
    /\ out = <<>>
    /\ eachRet = Running
    /\ retOrder = <<>>
    /\ call = NoCall

TwinSpec == TwinInit /\ [][Next]_vars

\* runs over inputs whose masks carry attribute options
AttrInputs == <<
    File(1, Mask({8, 7}, {"i", "u", "x"})),
    File(5, Mask({8}, {"i"})),
    File(2, Mask({8}, {"i", "t"})),
    File(5, Mask({}, {"i", "l"})),
    File(1, Mask({}, {"i", "e"})),
    File(10, Mask({8}, {"e"})),
    File(15, Mask({}, {"i"})),
    File(5, Mask({}, {"e"})),
    File(29, Mask({8}, {"l", "e"})),
    File(35, Mask({}, {})),
    File(15, Mask({}, {})),
    File(2, Mask({8}, {"n", "e"})) >>

AttrSeqs ==
    {[k \in 1..n |-> AttrInputs[((s + k - 2) % Len(AttrInputs)) + 1]] :
        s \in 1..Len(AttrInputs), n \in 1..MaxInputs}

AttrInit ==
    /\ files \in AttrSeqs
    /\ cap \in 1..MaxCap
    /\ noDirs \in BOOLEAN
    /\ sem = 0
    /\ W = <<>>
    /\ wg = [k \in 1..Len(files) |-> 0]
    /\ prod = [pc |-> "recv", next |-> 1]
    /\ queue = newNodeQueue
    /\ cons = [pc |-> "dequeue", slot |-> 0]
    /\ out = <<>>
    /\ eachRet = Running
    /\ retOrder = <<>>
    /\ call = NoCall

AttrSpec == AttrInit /\ [][Next]_vars

\* runs over a directory and the same directory with its children renamed,
\* under one mask that selects mode bits and the group
RenameMasks == {Mask({8, 7}, a \cup {"g"}) : a \in SUBSET {"n", "l"}}
RenameSeqs == {<<File(29, m), File(32, m)>> : m \in RenameMasks}

RenameInit ==
    /\ files \in RenameSeqs
    /\ cap \in 1..MaxCap
    /\ noDirs \in BOOLEAN
    /\ sem = 0
    /\ W = <<>>
    /\ wg = [k \in 1..Len(files) |-> 0]
    /\ prod = [pc |-> "recv", next |-> 1]
    /\ queue = newNodeQueue
    /\ cons = [pc |-> "dequeue", slot |-> 0]
    /\ out = <<>>
    /\ eachRet = Running
    /\ retOrder = <<>>
    /\ call = NoCall

RenameSpec == RenameInit /\ [][Next]_vars

\* ------------------------------------------------ claims: helper notions
Returned(w) == w.pc \in {"ret", "done"}

\* the walker of the top-level walkFile call for input k
RootOf(k) == CHOOSE i \in Walkers : IsRoot(W[i]) /\ W[i].input = k
HasRoot(k) == \E i \in Walkers : IsRoot(W[i]) /\ W[i].input = k

RECURSIVE ChainFired(_)
\* how often the walk started as invocation i invoked its sched callback,
\* counting the invocations it delegated to
ChainFired(i) ==
    W[i].fired + (IF W[i].callee # 0 THEN ChainFired(W[i].callee) ELSE 0)

RECURSIVE SumHolds(_)
SumHolds(n) == IF n = 0 THEN 0 ELSE Holds(W[n]) + SumHolds(n - 1)

RECURSIVE Ascending(_)
\* the elements of a set of paths in ascending order
Ascending(S) ==
    IF S = {} THEN <<>>
    ELSE LET m == CHOOSE x \in S : \A y \in S : x <= y IN <<m>> \o Ascending(S \ {m})

RECURSIVE Fold(_, _, _, _)
\* the range loop over the child nodes ns, taken in the order of the sequence
Fold(f, sub, hashes, ns) ==
    IF ns = <<>> THEN [ret |-> FALSE, hashes |-> hashes, node |-> NilNode]
    ELSE LET r == RangeOne(f, sub, hashes, Head(ns))
         IN  IF r.ret THEN r ELSE Fold(f, sub, r.hashes, Tail(ns))

RECURSIVE Canon(_, _)
\* the node of a sequential walk of file f that takes the children of every
\* directory in ascending order of their paths
Canon(f, sub) ==
    LET e == FS[f.path]
        fi == StatInfo(f)
    IN  CASE e.kind = "missing" ->
               newFileErrorNode("", f, sub, Cause("no such file or directory"))
          [] e.kind = "dir" /\ noDirs ->
               newFileErrorNode("", f, sub, ErrDirectory)
          [] e.kind = "dir" /\ ~noDirs ->
               IF ~e.ok
               THEN newFileErrorNode("read dir", f, sub, Cause("permission denied"))
               ELSE LET names == Ascending(e.kids)
                        ns == [k \in 1..Len(names) |-> Canon(File(names[k], f.mask), TRUE)]
                        r == Fold(f, sub, <<>>, ns)
                    IN  IF r.ret THEN r.node
                        ELSE FinishNode(f, sub, TreeSum(r.hashes), fi)
          [] e.kind = "symlink" /\ follow(f, sub) ->
               IF e.target = NoPath
               THEN newFileErrorNode("", f, sub, EvalSymlinksErr(f.path))
               ELSE [Canon(File(e.target, f.mask), sub) EXCEPT !.path = f.path]
          [] OTHER -> DataNode(f, sub, fi)

\* the entries of the HashTree of directory f in that walk
CanonHashes(f, sub) ==
    LET names == Ascending(FS[f.path].kids)
    IN  Fold(f, sub, <<>>, [k \in 1..Len(names) |-> Canon(File(names[k], f.mask), TRUE)]).hashes

IsDirWalk(w) == FS[w.file.path].kind = "dir"

\* ------------------------------------------- the command: output and check
\* hashAlg.String of the algorithm of the runs
AlgName == <<"s", "h", "a", "2", "5", "6">>

\* cli.ParseHash: the algorithm of a name
ParseHash(name) ==
    IF name = AlgName THEN Ok(HashSHA256) ELSE Fail(HashNone, "unknown algorithm")

\* the xsum.Mask value of a mask of the walk, and back
MaskNumber(mask) ==
    LET v[b \in 0..11] == (IF b \in mask.mode THEN 2 ^ b ELSE 0)
                          + (IF b = 0 THEN 0 ELSE v[b - 1])
    IN  [mode |-> v[11], attr |-> AttrValue(mask.attr)]

MaskOf(m) ==
    Mask({b \in 0..11 : HasBit(m.mode, b)}, {c \in AttrLetters : HasBit(m.attr, AttrBit[c])})

\* Node.SumString: hex.EncodeToString(n.Sum), the digest being two bytes
SumString(n) == IF n.sum = <<>> THEN <<>> ELSE Format(n.sum[1], 16, 4)

\* a Node.String that leaves the mask out for every node
NodeStringBare(n) == AlgName \o <<":">> \o SumString(n)

\* Node.String
NodeString(n) ==
    IF ModeBit.dir \in n.mode \/ "i" \in n.mask.attr
    THEN AlgName \o <<":">> \o SumString(n) \o <<":">> \o MaskString(MaskNumber(n.mask))
    ELSE AlgName \o <<":">> \o SumString(n)

\* Node.Hex
NodeHex(n) ==
    IF ModeBit.dir \in n.mode \/ "i" \in n.mask.attr
    THEN AlgName \o <<":">> \o SumString(n) \o <<":">> \o MaskHex(MaskNumber(n.mask))
    ELSE AlgName \o <<":">> \o SumString(n)

\* formatChecksum: the entry is hash, two spaces, path
formatChecksum(n, basic, opaque) ==
    [hash |-> IF basic THEN SumString(n) ELSE IF opaque THEN NodeHex(n) ELSE NodeString(n),
     path |-> n.path]

\* the node output mode gets for a file: with NoDirs (basic) a directory,
\* named or behind a followed link, is ErrDirectory
OutputNode(f, basic) ==
    LET n == Canon(f, FALSE)
    IN  IF basic /\ ModeBit.dir \in n.mode
        THEN newFileErrorNode("", f, FALSE, ErrDirectory)
        ELSE n

\* outputChecksums: one entry for every node without an error, in order
outputChecksums(paths, mask, basic, opaque) ==
    LET ns == [k \in 1..Len(paths) |-> OutputNode(File(paths[k], mask), basic)]
        rows[k \in 0..Len(paths)] ==
            IF k = 0 THEN <<>>
            ELSE IF ns[k].err # NoErr THEN rows[k - 1]
            ELSE Append(rows[k - 1], formatChecksum(ns[k], basic, opaque))
    IN  rows[Len(paths)]

\* strings.SplitN(s, ":", 3)
SplitColons(s) ==
    LET a == IndexOf(s, ":")
        rest == SubSeq(s, a + 1, Len(s))
        b == IndexOf(rest, ":")
    IN  IF a = 0 THEN <<s>>
        ELSE IF b = 0 THEN <<SubSeq(s, 1, a - 1), rest>>
        ELSE <<SubSeq(s, 1, a - 1), SubSeq(rest, 1, b - 1), SubSeq(rest, b + 1, Len(rest))>>

\* readIndex for one entry: the file and the expected digest handed to fn, or
\* no call of fn; hash is the algorithm of the command line
readIndex(entry, hash) ==
    LET parts == SplitColons(entry.hash)
        alg == IF Len(parts) > 1 THEN ParseHash(parts[1]) ELSE Ok(hash)
        fhash == IF Len(parts) > 1 THEN parts[2] ELSE entry.hash
        mask == IF Len(parts) < 3 THEN Ok([mode |-> 0, attr |-> 0])
                ELSE IF Len(parts[3]) > 4 /\ parts[3][5] # "+" THEN NewMaskHex(parts[3])
                ELSE NewMaskString(parts[3])
    IN  IF alg.err # "" \/ mask.err # "" \/ mask.panic
        THEN [called |-> FALSE, hash |-> HashNone, file |-> File(NoPath, Mask({}, {})), sum |-> <<>>]
        ELSE [called |-> TRUE, hash |-> alg.val, file |-> File(entry.path, MaskOf(mask.val)),
              sum |-> fhash]

\* the runs of output mode whose entries are checked: basic runs have no mask
CheckPaths == <<1, 2, 5, 35, 15, 6>>
CheckMasks == {Mask({}, {}), Mask({8, 7}, {"u"}), Mask({8}, {"i", "n"}),
               Mask({}, {"i", "e", "l"}), Mask({8, 7, 6}, {"n", "e"})}
CheckRuns ==
    {[paths |-> [k \in 1..n |-> CheckPaths[((s + k - 2) % Len(CheckPaths)) + 1]],
      mask |-> m, basic |-> b, opaque |-> o] :
        s \in 1..Len(CheckPaths), n \in 1..MaxInputs, m \in CheckMasks,
        b \in BOOLEAN, o \in BOOLEAN}

\* validateChecksums starts: the entries printed by a run of output mode are
\* read, and Each gets the files of the entries; Sum{} has NoDirs unset
CheckInit ==
    /\ noDirs = FALSE
    /\ \E r \in {r \in CheckRuns : r.basic => (r.mask = Mask({}, {}) /\ ~r.opaque)} :
         \E entries \in {outputChecksums(r.paths, r.mask, r.basic, r.opaque)} :
           \E read \in {[k \in 1..Len(entries) |-> readIndex(entries[k], HashSHA256)]} :
             /\ \A k \in 1..Len(read) : read[k].called
             /\ files = [k \in 1..Len(read) |-> read[k].file]
             /\ call = [fn |-> "validateChecksums",
                        arg |-> [run |-> r, entries |-> entries, read |-> read],
                        ret |-> Ok(<<>>)]
    /\ cap \in 1..MaxCap
    /\ sem = 0
    /\ W = <<>>
    /\ wg = [k \in 1..Len(files) |-> 0]
    /\ prod = [pc |-> "recv", next |-> 1]
    /\ queue = newNodeQueue
    /\ cons = [pc |-> "dequeue", slot |-> 0]
    /\ out = <<>>
    /\ eachRet = Running
    /\ retOrder = <<>>

\* the loop of Each calls the fn of validateChecksums with the node: it takes
\* the next expected digest from the sums channel, compares it with the
\* digest of the node, prints OK or FAILED and returns nil
CheckDequeueNode ==
    /\ cons.pc = "node"
    /\ \E i \in Walkers :
          /\ IsRoot(W[i])
          /\ W[i].input = cons.slot
          /\ W[i].pc = "ret"
          /\ Apply([Cur EXCEPT !.W[i].pc = "done"])
          /\ IF W[i].node = NilNode
             THEN /\ out' = out
                  /\ cons' = [pc |-> "done", slot |-> 0]
                  /\ eachRet' = Returns(NoErr)
                  /\ call' = call
             ELSE /\ out' = Append(out, W[i].node)
                  /\ LET n == W[i].node
                         expected == call.arg.read[Len(call.ret.val) + 1].sum
                     IN  call' = [call EXCEPT !.ret.val =
                                      Append(@, [path |-> n.path, expected |-> expected,
                                                 ok |-> SumString(n) = expected])]
                  /\ cons' = [pc |-> "dequeue", slot |-> 0]
                  /\ eachRet' = eachRet
    /\ UNCHANGED <<files, cap, noDirs, prod, queue>>

CheckNext ==
    \/ ProdEnqueue
    \/ ProdStart
    \/ ProdWait
    \/ ProdClose
    \/ DequeueNext
    \/ CheckDequeueNode
    \/ DequeueNil
    \/ AcquireStep
    \/ StatStep
    \/ ReadDirStep
    \/ WalkDirRetStep
    \/ CloseNodesStep
    \/ RangeStep
    \/ RangeEndStep
    \/ EvalSymStep
    \/ FollowRetStep
    \/ DataStep
    \/ SendStep

CheckSpec == CheckInit /\ [][CheckNext]_vars

\* ------------------------------------------------------------------ claims
\* C1: the callback receives the results in the order the inputs were
\* received: the j-th node handed to fn is the node of the j-th input.
C1_OrderPreserved ==
    \A j \in 1..Len(out) :
        /\ HasRoot(j)
        /\ W[RootOf(j)].pc = "done"
        /\ out[j] = W[RootOf(j)].node
        /\ out[j].path = files[j].path

\* a later input's walk returned before an earlier one's, and both were delivered
C1_Witness == Len(out) = 2 /\ retOrder = <<2, 1>>

\* C2: the node delivered for an input is a function of the tree and the
\* input alone: it is the node of the sequential walk, in every run.
C2_Deterministic ==
    \A j \in 1..Len(out) : out[j] = Canon(files[j], FALSE)

\* C3: the encoded HashTree and the digest of a directory do not depend on
\* the order in which the children's results arrived.
C3_TreeCanonical ==
    \A i \in Walkers :
        (IsDirWalk(W[i]) /\ Len(W[i].hashes) = Cardinality(FS[W[i].file.path].kids)) =>
            /\ TreeASN1DER(HashSHA256, W[i].hashes)
                 = TreeASN1DER(HashSHA256, CanonHashes(W[i].file, W[i].subdir))
            /\ (Returned(W[i]) /\ W[i].node.err = NoErr) =>
                  W[i].node.sum = Canon(W[i].file, W[i].subdir).sum

\* a directory returned its digest after its children arrived out of the
\* canonical order
C3_Witness ==
    \E i \in Walkers :
        /\ IsDirWalk(W[i])
        /\ Returned(W[i])
        /\ W[i].node.err = NoErr
        /\ Len(W[i].hashes) >= 2
        /\ W[i].hashes # CanonHashes(W[i].file, W[i].subdir)
        /\ [k \in 1..Len(W[i].hashes) |-> EntryDER(W[i].hashes[k])]
             # SortSeqs([k \in 1..Len(W[i].hashes) |-> EntryDER(W[i].hashes[k])])

\* C4: every walkFile invocation acquires one permit and releases it once,
\* on every exit path; the permits held are those of the invocations between
\* their acquire and their release, never more than the capacity, never
\* fewer than zero.
C4_PermitBalance ==
    /\ \A i \in Walkers :
          /\ W[i].acq \in {0, 1}
          /\ W[i].rel \in {0, 1}
          /\ W[i].rel <= W[i].acq
          /\ W[i].pc = "acquire" <=> W[i].acq = 0
          /\ Returned(W[i]) => (W[i].acq = 1 /\ W[i].rel = 1)
    /\ sem = SumHolds(Len(W))
    /\ sem >= 0
    /\ sem <= cap

\* a followed symlink returned: its latch was asked to release twice, and its
\* target's walk acquired and released a permit of its own
C4_Witness ==
    \E i \in Walkers :
        /\ W[i].callee # 0
        /\ Returned(W[i])
        /\ W[i].rel = 1
        /\ W[W[i].callee].rel = 1
        /\ \E j \in Walkers : IsDirWalk(W[j]) /\ Returned(W[j]) /\ W[j].rel = 1

Finished == prod.pc = "done" /\ \A i \in Walkers : Returned(W[i])

\* C5: no reachable state is a deadlock, and under fair scheduling every
\* walk returns, for every capacity from 1 on.
C5_NoDeadlock == [](Finished \/ ENABLED Next) /\ <>Finished

\* with capacity 1, a directory nested below another and a directory with two
\* children were walked to the end
C5_Witness ==
    /\ cap = 1
    /\ Finished
    /\ \E i, j \in Walkers :
          /\ IsDirWalk(W[i]) /\ IsDirWalk(W[j])
          /\ W[j].parent = i
          /\ Cardinality(FS[W[i].file.path].kids) = 2
          /\ W[i].node.err = NoErr

\* a walker is computing a hash: the data of a file or the target of a link,
\* or, in the range loop of a directory, a child's File record or the HashTree
Hashing(w) ==
    \/ w.pc = "data"
    \/ w.pc = "range" /\ (w.chan # <<>> \/ w.closer = "done")

\* C6 as stated: the hash computations in progress, those of directories
\* included, never exceed the capacity.
C6_AllHashesBounded == Cardinality({i \in Walkers : Hashing(W[i])}) <= cap

\* C6 as amended: the walkers hashing file data or link targets hold a permit
\* each and never exceed the capacity; a directory walker computes its
\* children's File records and its HashTree after it released its permit.
C6_DataHashesBounded ==
    /\ Cardinality({i \in Walkers : W[i].pc = "data"}) <= cap
    /\ \A i \in Walkers : W[i].pc = "data" => Holds(W[i]) = 1
    /\ \A i \in Walkers : W[i].pc = "range" => Holds(W[i]) = 0

\* every permit is held by a walker hashing data while a directory walker
\* has a child's record to hash
C6_Witness ==
    /\ Cardinality({i \in Walkers : W[i].pc = "data"}) = cap
    /\ \E i \in Walkers : W[i].pc = "range" /\ W[i].chan # <<>>

\* the steps that open or read a file, a directory or a link
IOSteps == {"stat", "readdir", "evalsym", "data"}

\* C7: a walker stats, reads a directory, resolves a link or reads data only
\* while it holds a permit, so at most capacity-many do so at once.
C7_OpenFilesBounded ==
    /\ \A i \in Walkers : W[i].pc \in IOSteps => Holds(W[i]) = 1
    /\ Cardinality({i \in Walkers : W[i].pc \in IOSteps}) <= cap

\* capacity-many walkers are in such a step, one of them reading a directory,
\* and another walker waits for a permit
C7_Witness ==
    /\ Cardinality({i \in Walkers : W[i].pc \in IOSteps}) = cap
    /\ \E i \in Walkers : W[i].pc = "readdir"
    /\ \E i \in Walkers : W[i].pc = "acquire"

\* C8: the sched callback of every walk that was started is invoked at most
\* once, and exactly once by the time the walk returns.
C8_SchedOnce ==
    /\ \A i \in Walkers :
          W[i].caller = 0 =>
             /\ ChainFired(i) <= 1
             /\ Returned(W[i]) => ChainFired(i) = 1
    /\ \A k \in 1..Len(files) : wg[k] >= 0
    /\ \A i \in Walkers : W[i].swg >= 0

\* a walk delegated to a symlink's target returned: the outer invocation did
\* not call sched, the inner one did
C8_Witness ==
    \E i \in Walkers :
        /\ W[i].caller = 0
        /\ W[i].callee # 0
        /\ Returned(W[i])
        /\ W[i].fired = 0
        /\ W[W[i].callee].fired = 1

\* walker i invokes its sched callback in this step
Fires(i) == W'[i].fired > W[i].fired

\* every walk started by the walkDir of walker i has invoked sched, and so
\* has acquired a permit
DescendantsScheduled(i) ==
    \A j \in Walkers : (W[j].parent = i /\ W[j].caller = 0) =>
        (ChainFired(j) = 1 /\ W[j].acq = 1)

\* C9 as stated: when a walker invokes sched, its descendants are scheduled
\* and it holds no permit.
C9_SchedWithoutPermit ==
    [][\A i \in Walkers : Fires(i) => (DescendantsScheduled(i) /\ Holds(W[i]) = 0)]_vars

\* C9 as amended: when a walker invokes sched, its descendants are scheduled;
\* it holds no permit if it is a directory back from walkDir, and it still
\* holds its permit for a file, an unfollowed symlink and an error return.
C9_SchedAfterDescendants ==
    [][\A i \in Walkers : Fires(i) =>
          /\ DescendantsScheduled(i)
          /\ W[i].pc = "walkdir" => (Holds(W[i]) = 0 /\ W[i].swg = 0)
          /\ W[i].pc # "walkdir" => Holds(W[i]) = 1]_vars

\* a directory invoked sched after its two children did, and a walker that
\* invoked sched for a file still holds its permit
C9_Witness ==
    /\ \E i \in Walkers :
          /\ W[i].pc = "range" /\ W[i].fired = 1
          /\ Cardinality({j \in Walkers : W[j].parent = i}) = 2
    /\ \E i \in Walkers : W[i].pc = "data" /\ W[i].fired = 1 /\ Holds(W[i]) = 1

\* the walkers started in this step
Started == {j \in 1..Len(W') : j > Len(W)}

\* C10: the walk of an input starts only after the walk of the input before
\* it invoked sched; when a top-level sched is invoked every walker of that
\* input has been started and has acquired a permit; so no walker of a later
\* input acquires before all walkers of the earlier inputs have.
C10_Pipelined ==
    /\ [](\A k \in 1..Len(files) :
            /\ (k > 1 /\ HasRoot(k)) => (HasRoot(k - 1) /\ ChainFired(RootOf(k - 1)) = 1)
            /\ (HasRoot(k) /\ ChainFired(RootOf(k)) = 1) =>
                  \A i \in Walkers : W[i].input = k => W[i].acq = 1)
    /\ [](\A i, j \in Walkers : (W[i].input < W[j].input /\ W[j].acq = 1) => W[i].acq = 1)
    /\ [][\A j \in Started :
            HasRoot(W'[j].input) => ChainFired(RootOf(W'[j].input)) = 0]_vars

\* a walker of the second input holds a permit while walkers started under
\* the first input, a directory, are still at work
C10_Witness ==
    /\ \E j \in Walkers : W[j].input = 2 /\ Holds(W[j]) = 1
    /\ \E i \in Walkers : W[i].input = 1 /\ W[i].parent # 0 /\ ~Returned(W[i])

RECURSIVE Chain(_, _)
\* the result channels of the elements linked behind element k, in link order
Chain(q, k) ==
    IF q.elems[k].next = <<>> THEN <<>>
    ELSE <<q.elems[q.elems[k].next[1]].node>> \o Chain(q, q.elems[k].next[1])

\* the slots dequeue has returned or is about to return the node of
Dequeued == Len(out) + (IF cons.pc = "node" THEN 1 ELSE 0)

\* C11: with enqueue and dequeue running concurrently, the slots enqueued are
\* 1, 2, ... in order; those dequeued are a prefix of them, each once, and
\* the rest are linked behind q.back in enqueue order: none is lost.
C11_QueueFifo ==
    /\ queue.elems[queue.back].node = Dequeued
    /\ cons.pc = "node" => cons.slot = Len(out) + 1
    /\ Chain(queue, queue.back)
         = [j \in 1..(Len(queue.elems) - 1 - Dequeued) |-> Dequeued + j]
    /\ Len(queue.elems) - 1 = (IF prod.pc \in {"recv", "done"} THEN prod.next - 1 ELSE prod.next)

\* the consumer has dequeued the second slot while the producer is still
\* inside the enqueue of that slot, before q.front = elem
C11_Witness ==
    /\ prod.pc = "front" /\ prod.next = 2
    /\ cons.pc = "node" /\ cons.slot = 2
    /\ queue.front # Len(queue.elems)

FindRun ==
    \A j \in 1..Len(out) :
        FindFn(out[j]) = (IF j = Len(out) /\ eachRet.done THEN eachRet.err ELSE NoErr)

\* the nodes Find returns: nil with an error, else the nodes appended
FindNodes == IF eachRet.err # NoErr THEN <<>> ELSE out

\* C13: when the callback fails Each returns its error and the callback is
\* not invoked again; Find returns the nodes of all inputs, each without
\* error, or no nodes and the error of the first failing input.
C13_StopAtFirstError ==
    /\ [](eachRet.err # NoErr => (eachRet.done /\ cons.pc = "done"))
    /\ [][eachRet.done => (out' = out /\ eachRet' = eachRet)]_vars
    /\ []((FindRun /\ eachRet.done) =>
            \/ /\ eachRet.err = NoErr
               /\ Len(FindNodes) = Len(files)
               /\ \A j \in 1..Len(files) :
                     FindNodes[j].err = NoErr /\ FindNodes[j].path = files[j].path
            \/ /\ eachRet.err # NoErr
               /\ FindNodes = <<>>
               /\ out[Len(out)].path = files[Len(out)].path
               /\ eachRet.err = out[Len(out)].err
               /\ \A j \in 1..(Len(out) - 1) : out[j].err = NoErr)

\* Find returned the error of the second input after the first succeeded
C13_Witness ==
    /\ FindRun
    /\ eachRet.done
    /\ eachRet.err # NoErr
    /\ Len(out) = 2
    /\ out[1].err = NoErr

RECURSIVE Tree(_)
\* the paths a walk of path p can touch: p, the target of a link, the
\* entries below a directory
Tree(p) ==
    {p} \cup (IF FS[p].target # NoPath THEN Tree(FS[p].target) ELSE {})
        \cup UNION {Tree(k) : k \in FS[p].kids}

\* the paths named in the FileErrors of an error
ErrPaths(err) == {err.chain[k].path : k \in 1..Len(err.chain)}

\* C14: the node delivered for an input is that input's own: its digest when
\* nothing under the input fails, whatever happened to the other inputs, and
\* otherwise an error about paths of that input only; every input is started
\* unless Each returned an error, and the producer gets through the inputs.
C14_ErrorsIndependent ==
    /\ [](\A j \in 1..Len(out) :
            /\ out[j].path = files[j].path
            /\ Canon(files[j], FALSE).err = NoErr => out[j] = Canon(files[j], FALSE)
            /\ Canon(files[j], FALSE).err # NoErr =>
                  /\ out[j].err # NoErr
                  /\ ErrPaths(out[j].err) \subseteq Tree(files[j].path))
    /\ []((prod.pc = "done" /\ eachRet.err = NoErr) =>
            \A k \in 1..Len(files) : HasRoot(k))
    /\ [](eachRet = Returns(NoErr) => Len(out) = Len(files))
    /\ <>(prod.pc = "done")

\* the first input was delivered with an error, the second with its digest,
\* and Each returned nil
C14_Witness ==
    /\ eachRet = Returns(NoErr)
    /\ Len(out) = 2
    /\ out[1].err # NoErr
    /\ out[2].err = NoErr
    /\ out[2] = Canon(files[2], FALSE)

\* the walks started by the walkDir of walker i
Children(i) == {j \in Walkers : W[j].parent = i /\ W[j].caller = 0}

\* C15: a directory whose child returned an error returns no digest and the
\* error of a child: unchanged when the directory is itself a child, wrapped
\* once with the directory's path at top level; an error delivered to the
\* callback therefore carries at most that one wrapper above the FileError
\* of the entry that failed.
C15_ChildErrorOnce ==
    /\ \A i \in Walkers :
          (IsDirWalk(W[i]) /\ Returned(W[i])
              /\ \E j \in Children(i) : Returned(W[j]) /\ W[j].node.err # NoErr) =>
             /\ W[i].node.sum = <<>>
             /\ \E j \in Children(i) :
                   /\ Returned(W[j])
                   /\ W[j].node.err # NoErr
                   /\ W[i].node.err =
                        (IF W[i].subdir THEN W[j].node.err
                         ELSE newFileError("", W[i].file.path, FALSE, W[j].node.err))
    /\ \A j \in 1..Len(out) :
          /\ Len(out[j].err.chain) <= 2
          /\ Len(out[j].err.chain) = 2 =>
                /\ out[j].err.chain[1] = [action |-> "", path |-> files[j].path, subdir |-> FALSE]
                /\ out[j].err.chain[2].subdir

\* the failure of an entry two directories down was delivered with the
\* wrapper of the top-level directory alone
C15_Witness ==
    \E j \in 1..Len(out) :
        /\ Len(out[j].err.chain) = 2
        /\ out[j].err.chain[1].path = files[j].path
        /\ \E k \in FS[files[j].path].kids : out[j].err.chain[2].path \in FS[k].kids

\* C16: every node handed to the callback has a digest or an error, and not
\* both.
C16_SumXorErr ==
    \A j \in 1..Len(out) : (out[j].sum # <<>>) # (out[j].err # NoErr)

\* delivered: a node of an entry whose data is not read (a fifo with the
\* inclusive attribute), with the digest of its File record, and an error node
C16_Witness ==
    /\ Len(out) = 2
    /\ \E j \in 1..2 :
          /\ FS[out[j].path].kind = "special"
          /\ "e" \in out[j].mask.attr
          /\ out[j].sum # <<>>
    /\ \E j \in 1..2 : out[j].err # NoErr /\ out[j].sum = <<>>

\* C17: no call of a parser on a caller's string panics; every call returns
\* a value or an error.
C17_NeverPanics == ~call.ret.panic

\* ---------------------------------------------------------------- C18
\* the walkFile invocation that started invocation i: the follow case that
\* called it, or the directory whose walkDir spawned it (0 for an input)
Up(i) == IF W[i].caller # 0 THEN W[i].caller ELSE W[i].parent

RECURSIVE Ancestors(_)
Ancestors(i) == IF Up(i) = 0 THEN {} ELSE {Up(i)} \cup Ancestors(Up(i))

\* invocation i runs with the very arguments of an invocation that is waiting
\* for it: walkFile depends on nothing but its arguments and the file system,
\* so i repeats that walk, re-entry included, without end
Reenters(i) ==
    \E j \in Ancestors(i) :
        /\ W[j].file = W[i].file
        /\ W[j].subdir = W[i].subdir
        /\ ~Returned(W[j])

\* C18: with symlink following in effect, a walk over a tree whose links form
\* a cycle always finishes: no walk is started again inside itself, so none
\* recurses or spawns walks forever.
C18_CycleFinishes == \A i \in Walkers : ~Reenters(i)

\* ---------------------------------------------------------------- C19
\* the bits set in a big-endian 32-bit word given as 4 bytes
BitsOf(bytes) == {b \in 0..31 : (bytes[4 - (b \div 8)] \div (2 ^ (b % 8))) % 2 = 1}

\* the contents of mode.mask and mode.mode in a File record made from node n
RecordMask(der, n) ==
    LET off == IF Len(n.sum) # 0 THEN 2 + Len(n.sum) ELSE 0
    IN  BitsOf(SubSeq(der, off + 2, off + 5))
RecordMode(der, n) ==
    LET off == IF Len(n.sum) # 0 THEN 2 + Len(n.sum) ELSE 0
    IN  BitsOf(SubSeq(der, off + 6, off + 9))

IsRegular(n) == n.mode \cap ModeType = {}
IsSymlink(n) == ModeBit.symlink \in n.mode

\* nodes of a regular file and of a symlink with equal content digests, equal
\* masks, equal permissions and equal selected metadata
SameButType(m, n) ==
    /\ IsRegular(m) /\ IsSymlink(n)
    /\ m.sum = n.sum /\ m.mask = n.mask
    /\ m.mode \cap ModePerm = n.mode \cap ModePerm
    /\ selectSys(m) = selectSys(n)

\* C19: in every File record hashFileAttr encodes, for every Mask, all
\* file-type bits are set in mode.mask and the entry's type bits are in
\* mode.mode; so the records of a regular file and of a symlink with equal
\* content digest and equal selected metadata differ.
C19_TypeBitsKept ==
    (call.fn = "hashFileAttr" /\ call.ret.err = "") =>
        LET n == call.arg[1]
            der == call.ret.val.der
        IN  /\ ModeType \subseteq RecordMask(der, n)
            /\ n.mode \cap ModeType \subseteq RecordMode(der, n)
            /\ \A m \in CallNodes :
                  (SameButType(m, n) \/ SameButType(n, m)) => fileRecord(m) # der

\* the record of a symlink is encoded, with a mask that selects no mode bit,
\* and a regular file equal to it in everything but the type exists
C19_Witness ==
    /\ call.fn = "hashFileAttr" /\ call.ret.err = ""
    /\ IsSymlink(call.arg[1])
    /\ call.arg[1].mask.mode = {}
    /\ call.arg[1].sum # <<>>
    /\ \E m \in CallNodes : SameButType(m, call.arg[1])

\* ---------------------------------------------------------------- C20
\* entries a and b hold the same contents: kind, children, link target, data
SameContent(a, b) ==
    /\ FS[a].kind = FS[b].kind /\ FS[a].kids = FS[b].kids
    /\ FS[a].target = FS[b].target /\ FS[a].data = FS[b].data /\ FS[a].ok = FS[b].ok

\* mode, owner, times, device id, xattrs and name of a and b all differ
OwnMetadataDiffers(a, b) ==
    /\ FS[a].mode # FS[b].mode /\ FS[a].name # FS[b].name
    /\ getSys(a) # getSys(b)
    /\ a = 1 => getXattr(a) # getXattr(b)

\* the metadata of entry p that mask m selects
SelectedMetadata(p, m) ==
    LET n == Node(File(p, m), <<>>, FS[p].mode, getSys(p), StatInfo(File(p, m)).xattr, NoErr)
    IN  <<n.mode \cap modeMask(n), selectSys(n)>>

\* a and b are directories of one file each, of the same name and contents,
\* whose metadata differs in something mask m selects
InnerMetadataDiffers(a, b, m) ==
    /\ FS[a].kind = "dir" /\ FS[b].kind = "dir"
    /\ \E ka \in FS[a].kids, kb \in FS[b].kids :
          /\ FS[a].kids = {ka} /\ FS[b].kids = {kb}
          /\ FS[ka].kind = "file" /\ SameContent(ka, kb) /\ FS[ka].name = FS[kb].name
          /\ SelectedMetadata(ka, m) # SelectedMetadata(kb, m)

\* both inputs of a run of two have been delivered with a digest
BothSummed ==
    /\ Len(files) = 2 /\ Len(out) = 2
    /\ files[1].mask = files[2].mask
    /\ out[1].err = NoErr /\ out[2].err = NoErr

\* C20: without the i attribute the digest of a top-level input does not
\* depend on the entry's own mode, owner, times, device id, xattrs or name:
\* two inputs of the same contents get the same digest, while directories
\* whose entries differ in selected metadata get different digests.
C20_OwnMetadataIgnored ==
    (BothSummed /\ "i" \notin files[1].mask.attr) =>
        /\ SameContent(files[1].path, files[2].path) => out[1].sum = out[2].sum
        /\ InnerMetadataDiffers(files[1].path, files[2].path, files[1].mask)
              => out[1].sum # out[2].sum

\* two directories of the same children whose own mode, owner, times and name
\* differ were summed under a mask that selects mode bits, owner, times and
\* xattrs, without i
C20_Witness ==
    /\ BothSummed /\ "i" \notin files[1].mask.attr
    /\ files[1].mask.mode # {} /\ {"u", "t", "x"} \subseteq files[1].mask.attr
    /\ FS[files[1].path].kind = "dir"
    /\ SameContent(files[1].path, files[2].path)
    /\ OwnMetadataDiffers(files[1].path, files[2].path)
    /\ out[1].sum # <<>>

\* ---------------------------------------------------------------- C21
\* the raw digest of the entry of invocation i, which returned node n: the
\* HashTree digest of a directory, the digest of the link text of a symlink,
\* the digest of the contents of a file, or none when data is excluded
Raw(i, n) ==
    LET e == FS[W[i].file.path]
    IN  CASE e.kind = "dir" -> TreeSum(W[i].hashes)
          [] "e" \in n.mask.attr -> <<>>
          [] e.kind = "symlink" -> Metadata(e.data)
          [] OTHER -> HashFile(W[i].file.path)

\* invocation i returned a node with a digest from its own switch case, not
\* from the call on a link target
OwnNode(i) == Returned(W[i]) /\ W[i].callee = 0 /\ W[i].node.err = NoErr

\* node n, returned by invocation i, holds the hash of the File record made
\* of the raw digest and the selected metadata
WrappedOnce(i, n) == n.sum = Metadata(fileRecord([n EXCEPT !.sum = Raw(i, n)]))

\* C21: with i on a top-level input the delivered digest is the hash of the
\* File record whose hash field is the raw digest of the entry, with the
\* metadata the mask selects; a child hands its raw digest to its parent,
\* and the parent's HashEntry holds that digest wrapped once.
C21_InclusiveWrapsOnce ==
    /\ \A i \in Walkers : OwnNode(i) =>
          IF inclusive(W[i].file) /\ ~W[i].subdir
          THEN WrappedOnce(i, W[i].node)
          ELSE W[i].node.sum = Raw(i, W[i].node)
    /\ \A i \in Walkers : \A k \in 1..Len(W[i].hashes) :
          \E j \in Walkers :
              /\ W[j].parent = i /\ W[j].caller = 0 /\ W[j].pc = "done"
              /\ W[j].node.err = NoErr
              /\ W[i].hashes[k].hash = Metadata(fileRecord(W[j].node))
              /\ W[j].callee = 0 => W[j].node.sum = Raw(j, W[j].node)

\* a directory given with i was delivered with its wrapped digest, after its
\* children handed it raw digests
C21_Witness ==
    \E i \in Walkers :
        /\ IsRoot(W[i]) /\ OwnNode(i) /\ inclusive(W[i].file)
        /\ FS[W[i].file.path].kind = "dir"
        /\ Len(W[i].hashes) = 2
        /\ \E k \in 1..Len(out) : out[k] = W[i].node /\ WrappedOnce(i, out[k])

\* ---------------------------------------------------------------- C22
\* the walkFile invocations whose nodes the range loop of directory i received
Received(i) ==
    {j \in Walkers : W[j].parent = i /\ W[j].caller = 0 /\ W[j].pc = "done"
                      /\ W[j].node.err = NoErr}

\* the children of directories a and b are the same entries under other names
Renamed(a, b) ==
    /\ FS[a].kind = "dir" /\ FS[b].kind = "dir"
    /\ \E g \in [FS[a].kids -> FS[b].kids] :
          /\ \A kb \in FS[b].kids : \E ka \in FS[a].kids : g[ka] = kb
          /\ \A ka \in FS[a].kids :
                /\ SameContent(ka, g[ka]) /\ FS[ka].mode = FS[g[ka]].mode
                /\ FS[ka].name # FS[g[ka]].name

\* C22: with the n attribute no HashEntry carries a name, so two directories
\* that differ in the names of their children only get the same digest;
\* without n every HashEntry carries the basename of its child.
C22_NamesLeftOut ==
    /\ \A i \in Walkers : \A k \in 1..Len(W[i].hashes) :
          IF "n" \in W[i].file.mask.attr
          THEN W[i].hashes[k].name = <<>>
          ELSE \E j \in Received(i) :
                  /\ W[i].hashes[k].hash = Metadata(fileRecord(W[j].node))
                  /\ W[i].hashes[k].name = FS[W[j].file.path].name
                  /\ W[i].hashes[k].name # <<>>
    /\ (BothSummed /\ "n" \in files[1].mask.attr
            /\ Renamed(files[1].path, files[2].path))
          => out[1].sum = out[2].sum

\* a directory and its renamed copy were both summed with n, and both had
\* entries for their two children
C22_Witness ==
    /\ BothSummed /\ "n" \in files[1].mask.attr
    /\ Renamed(files[1].path, files[2].path)
    /\ out[1].sum # <<>>
    /\ \A k \in 1..2 : Len(W[RootOf(k)].hashes) = 2

\* ---------------------------------------------------------------- C23
\* the nodes whose File records have been encoded: the children whose
\* entries are in the hashes of their directory, and the top-level entries
\* given with i, with their raw digests
Encoded ==
    {W[j].node : j \in {c \in Walkers : W[c].parent # 0 /\ c \in Received(W[c].parent)
                            /\ \E k \in 1..Len(W[W[c].parent].hashes) :
                                  W[W[c].parent].hashes[k].hash
                                      = Metadata(fileRecord(W[c].node))}}
    \cup {[W[i].node EXCEPT !.sum = Raw(i, W[i].node)] :
             i \in {r \in Walkers : IsRoot(W[r]) /\ OwnNode(r) /\ inclusive(W[r].file)}}

\* the hash field of a File record: present, and its hashType
HasHash(der) == der[1] = 200
HashTypeOf(der) == IF HasHash(der) THEN der[2] ELSE HashNone

\* the record of node n has no hash field and no hashType but none
NoHashField(n) == ~HasHash(fileRecord(n)) /\ HashTypeOf(fileRecord(n)) = HashNone
\* the record of node n has the digest of n with the algorithm of the run
HashField(n) ==
    /\ HasHash(fileRecord(n)) /\ HashTypeOf(fileRecord(n)) = HashSHA256
    /\ n.sum # <<>>
    /\ SubSeq(fileRecord(n), 3, 2 + Len(n.sum)) = n.sum

\* C23: in every encoded File record, when the e attribute is in effect for
\* the entry the hash field is absent and the hashType is none; otherwise
\* the hash field is present with the algorithm that produced the digest.
C23_NoDataNoHash ==
    \A n \in Encoded : IF "e" \in n.mask.attr THEN NoHashField(n) ELSE HashField(n)

\* C23, amended: as above for every entry that is not a directory; the
\* record of a directory holds the HashTree digest whether e is set or not.
C23_NoDataNoHashFiles ==
    \A n \in Encoded :
        IF ModeBit.dir \in n.mode THEN HashField(n)
        ELSE IF "e" \in n.mask.attr THEN NoHashField(n) ELSE HashField(n)

\* under a mask with e, the records of a file and of a directory inside a
\* directory have been encoded, the first without hash field
C23_Witness ==
    /\ \E n \in Encoded : "e" \in n.mask.attr /\ ModeBit.dir \notin n.mode /\ NoHashField(n)
    /\ \E n \in Encoded : "e" \in n.mask.attr /\ ModeBit.dir \in n.mode /\ HashField(n)

\* ---------------------------------------------------------------- C24
\* the platform of call a can supply field x of the entry
Supplies(a, x) ==
    CASE x = "x" -> a.plat = "posix" /\ a.xattrOk
      [] x \in {"t", "c"} -> a.statOk
      [] OTHER -> a.plat = "posix" /\ a.statOk

\* the mask in effect for the entry: walkFile drops x for standard input
EffectiveAttr(a) == IF a.stdin THEN a.file.mask.attr \ {"x"} ELSE a.file.mask.attr

FieldOf == [u |-> "uid", g |-> "gid", s |-> "rdev", t |-> "mtime", c |-> "ctime", x |-> "xattr"]

\* field x is in the File record of node n with the value of the entry
InRecord(n, x) ==
    LET sys == selectSys(n)
        want == IF x = "x" THEN <<getXattr(n.path)>> ELSE getSys(n.path)[1][FieldOf[x]]
    IN  /\ sys[FieldOf[x]] = want /\ want # <<>>
        /\ (x = "s" /\ n.mode \cap {ModeBit.device, ModeBit.chardev} = {})
           \/ fileRecord(n) # FileASN1DER(HashSHA256, n.sum, n.mode, modeMask(n),
                                           [sys EXCEPT ![FieldOf[x]] = <<>>])

Dispatched(i) == W[i].pc \notin {"acquire", "stat"}

\* invocation i took the follow case: it resolves the link, has called
\* walkFile on the target, or returned with the error of EvalSymlinks
TookFollow(i) ==
    \/ W[i].pc \in {"evalsym", "call"}
    \/ W[i].callee # 0
    \/ Returned(W[i]) /\ W[i].node.err # NoErr

\* the digest of the data of the entry of invocation i: of the link text of
\* a symlink, of the contents of a file
DataDigest(i) ==
    IF FS[W[i].file.path].kind = "symlink"
    THEN Metadata(FS[W[i].file.path].data)
    ELSE HashFile(W[i].file.path)

\* the node of invocation i holds digest d of the data, wrapped in the File
\* record if the entry is a top-level input with i
HoldsData(i, d) ==
    LET n == W[i].node
    IN  n.sum = IF "i" \in n.mask.attr /\ ~W[i].subdir
                THEN Metadata(fileRecord([n EXCEPT !.sum = d]))
                ELSE d

\* C25: a symlink is followed exactly when l is set or the entry is a
\* top-level input without i, and the data of a file or link is left out
\* exactly when e is set and the entry is a child or i is set; so for a
\* top-level input without i links are followed and e is ignored.
C25_FollowAndNoData ==
    \A i \in Walkers :
        LET a == W[i].file.mask.attr
            e == FS[W[i].file.path]
        IN  /\ (e.kind = "symlink" /\ Dispatched(i)) =>
                  (TookFollow(i) <=> ("l" \in a \/ ("i" \notin a /\ ~W[i].subdir)))
            /\ (OwnNode(i) /\ e.kind \in {"file", "symlink"}) =>
                  IF "e" \in a /\ ("i" \in a \/ W[i].subdir)
                  THEN HoldsData(i, <<>>) /\ ~HoldsData(i, DataDigest(i))
                  ELSE HoldsData(i, DataDigest(i)) /\ ~HoldsData(i, <<>>)
            /\ ("i" \notin a /\ ~W[i].subdir /\ Dispatched(i)) =>
                  /\ e.kind = "symlink" => TookFollow(i)
                  /\ (OwnNode(i) /\ e.kind = "file") => W[i].node.sum = HashFile(W[i].file.path)

\* a top-level link given with e and without i was followed and the data of
\* its target was hashed all the same
C25_Witness ==
    \E i \in Walkers :
        /\ IsRoot(W[i]) /\ FS[W[i].file.path].kind = "symlink"
        /\ W[i].file.mask.attr = {"e"}
        /\ Returned(W[i]) /\ W[i].callee # 0
        /\ W[i].node.sum = HashFile(FS[W[i].file.path].target)

\* ---------------------------------------------------------------- C26
\* invocation i walked a device, fifo or socket given as a top-level input
\* without i, and has returned
SpecialAtTop(i) ==
    /\ IsRoot(W[i]) /\ Returned(W[i])
    /\ FS[W[i].file.path].kind = "special"
    /\ "i" \notin W[i].file.mask.attr

\* C26: walking a top-level device, fifo or socket without i returns the
\* special-file error and no digest; its contents are never read.
C26_SpecialFileError ==
    \A i \in Walkers : SpecialAtTop(i) =>
        W[i].node.err.cause = ErrSpecialFile.cause /\ W[i].node.sum = <<>>

\* C26, amended: walking a top-level device, fifo or socket without i reads
\* it like a regular file: the node holds the digest of what was read, no
\* error, and a mask without e.
C26_SpecialFileRead ==
    \A i \in Walkers : SpecialAtTop(i) =>
        /\ W[i].node.err = NoErr
        /\ W[i].node.sum = HashFile(W[i].file.path)
        /\ "e" \notin W[i].node.mask.attr

\* the digest of a fifo given without i was handed to the callback
C26_Witness ==
    \E i \in Walkers :
        /\ SpecialAtTop(i) /\ ModeBit.pipe \in W[i].node.mode
        /\ \E k \in 1..Len(out) : out[k] = W[i].node /\ out[k].sum = HashFile(W[i].file.path)

\* ---------------------------------------------------------------- C27
\* file f, walked with is_child flag sub, is a directory: named directly or
\* reached through a symlink that is followed
IsDirectory(f, sub) ==
    LET e == FS[f.path]
    IN  \/ e.kind = "dir"
        \/ /\ e.kind = "symlink"
           /\ "l" \in f.mask.attr \/ ("i" \notin f.mask.attr /\ ~sub)
           /\ e.target # NoPath /\ FS[e.target].kind = "dir"

\* C27: with NoDirs set, every input that is a directory, named directly or
\* reached through a followed symlink, yields an error node whose cause is
\* ErrDirectory; no directory is read and no child walk is started.
C27_NoDirsRejects ==
    noDirs =>
        /\ \A i \in Walkers :
              /\ W[i].parent = 0 /\ W[i].subdir = FALSE
              /\ W[i].pc \in {"acquire", "stat", "evalsym", "call", "data", "ret", "done"}
              /\ W[i].hashes = <<>> /\ W[i].chan = <<>>
              /\ (Returned(W[i]) /\ IsDirectory(W[i].file, W[i].subdir)) =>
                    W[i].node.err.cause = ErrDirectory.cause /\ W[i].node.sum = <<>>
        /\ \A k \in 1..Len(out) : IsDirectory(files[k], FALSE) =>
              /\ out[k].err.cause = ErrDirectory.cause
              /\ out[k].sum = <<>>
              /\ out[k].path = files[k].path

\* with NoDirs set, the error nodes of a directory and of a link to a
\* directory were handed to the callback
C27_Witness ==
    /\ noDirs
    /\ \E k \in 1..Len(out) : FS[files[k].path].kind = "dir"
                                /\ out[k].err.cause = ErrDirectory.cause
    /\ \E k \in 1..Len(out) : FS[files[k].path].kind = "symlink"
                                /\ IsDirectory(files[k], FALSE)
                                /\ out[k].err.cause = ErrDirectory.cause

\* ---------------------------------------------------------------- C28
\* C28: when a symlink is followed, the walk of the target runs with the
\* mask, the is_child flag and the on_scheduled callback of the walk of the
\* link, which itself never calls it; the returned node is the node of the
\* target (digest, mode, metadata) with the path of the link.
C28_FollowKeepsPath ==
    \A i \in Walkers : W[i].callee # 0 =>
        LET j == W[i].callee
            target == FS[W[i].file.path].target
        IN  /\ W[j].caller = i
            /\ W[j].file = File(target, W[i].file.mask)
            /\ W[j].subdir = W[i].subdir
            /\ W[j].parent = W[i].parent /\ W[j].input = W[i].input
            /\ W[i].fired = 0
            /\ Returned(W[i]) =>
                  /\ Returned(W[j])
                  /\ W[i].node = [W[j].node EXCEPT !.path = W[i].file.path]
                  /\ W[i].node.err = NoErr =>
                        /\ W[i].node.mode = FS[target].mode
                        /\ W[i].node.sys = getSys(target)
                        /\ FS[target].kind = "file" /\ ~W[i].subdir /\ "i" \notin W[i].file.mask.attr
                              => W[i].node.sum = HashFile(target)

\* a followed top-level link was delivered: the node has the path of the
\* link, and the mode and the digest of the contents of its target
C28_Witness ==
    \E i \in Walkers :
        /\ IsRoot(W[i]) /\ W[i].callee # 0 /\ Returned(W[i])
        /\ W[i].node.err = NoErr
        /\ W[i].node.path = W[i].file.path
        /\ W[W[i].callee].node.path # W[i].node.path
        /\ W[i].node.mode = FS[FS[W[i].file.path].target].mode
        /\ W[i].node.sum = HashFile(FS[W[i].file.path].target)
        /\ \E k \in 1..Len(out) : out[k] = W[i].node

\* ---------------------------------------------------------------- C29
OctalDigits == {"0", "1", "2", "3", "4", "5", "6", "7"}
HexDigits == {Digits[k] : k \in 1..16}

\* C29: NewMaskString(m.String()) = m for every Mask m with a 12-bit mode
\* and attributes out of the ten flags; m.String() is four octal digits,
\* followed by + and option letters exactly when the attribute set is not
\* empty.
C29_StringRoundTrip ==
    call.fn = "Mask.String" =>
        LET m == call.arg[1]
            str == call.ret.val.text
        IN  /\ call.ret.val.parsed = Ok(m)
            /\ Len(str) >= 4 /\ \A k \in 1..4 : str[k] \in OctalDigits
            /\ IF m.attr = 0 THEN Len(str) = 4
               ELSE /\ Len(str) > 5 /\ str[5] = "+"
                    /\ \A k \in 6..Len(str) : str[k] \in AttrLetters

\* the mask 4755 with all ten flags was formatted and parsed back
C29_Witness ==
    /\ call.fn = "Mask.String"
    /\ call.arg[1] = [mode |-> 2541, attr |-> AttrValue(AttrLetters)]
    /\ call.ret.val.text = <<"4", "7", "5", "5", "+", "u", "g", "s", "t", "c", "x", "i", "n", "e", "l">>
    /\ call.ret.val.parsed.val = call.arg[1]

\* ---------------------------------------------------------------- C30
\* C30: NewMaskHex(m.Hex()) = m for every Mask m with a 12-bit mode and
\* attributes out of the ten flags; m.Hex() is eight characters: the version
\* tag a, three hex digits of the mode and four of the attribute bits, both
\* big endian.
C30_HexRoundTrip ==
    call.fn = "Mask.Hex" =>
        LET m == call.arg[1]
            str == call.ret.val.text
        IN  /\ call.ret.val.parsed = Ok(m)
            /\ Len(str) = 8 /\ str[1] = "a"
            /\ \A k \in 2..8 : str[k] \in HexDigits
            /\ Number(SubSeq(str, 2, 4), 16) = m.mode
            /\ Number(SubSeq(str, 5, 8), 16) = m.attr

\* the mask 4755 with all ten flags was formatted as a9ed0fdb and parsed back
C30_Witness ==
    /\ call.fn = "Mask.Hex"
    /\ call.arg[1] = [mode |-> 2541, attr |-> AttrValue(AttrLetters)]
    /\ call.ret.val.text = <<"a", "9", "e", "d", "0", "f", "d", "b">>
    /\ call.ret.val.parsed.val = call.arg[1]

\* ---------------------------------------------------------------- C31
\* the ordinal of each option in the list of FORMAT.md
FormatOrdinal == [u |-> 0, g |-> 1, t |-> 3, c |-> 4, s |-> 6, x |-> 7,
                  i |-> 8, n |-> 9, e |-> 10, l |-> 11]

\* the sum of 2^k over the ordinals k of the options in S
OrdinalSum(S) ==
    LET v[k \in 0..11] == (IF \E c \in S : FormatOrdinal[c] = k THEN 2 ^ k ELSE 0)
                           + (IF k = 0 THEN 0 ELSE v[k - 1])
    IN  v[11]

\* C31: the attribute number of the opaque mask is the sum of 2^k over the
\* options present, k the ordinal of the option in FORMAT.md, and parsing the
\* human form of the same options yields that number.
C31_AttrNumber ==
    call.fn = "NewAttrString" =>
        LET str == call.arg[1]
            S == {str[k] : k \in 1..Len(str)}
        IN  /\ call.ret.val.parsed = Ok(OrdinalSum(S))
            /\ Len(call.ret.val.hex) = 4
            /\ Number(call.ret.val.hex, 16) = OrdinalSum(S)

\* the options l, e, t, u were parsed, out of attrRep order, and written as 0c09
C31_Witness ==
    /\ call.fn = "NewAttrString"
    /\ call.arg[1] = <<"l", "e", "t", "u">>
    /\ call.ret.val.parsed.val = 2 ^ 11 + 2 ^ 10 + 2 ^ 3 + 2 ^ 0
    /\ call.ret.val.hex = <<"0", "c", "0", "9">>

\* ---------------------------------------------------------------- C32
\* both texts of the pair give one mask, which formats back to each of them
SameMaskBothForms ==
    /\ call.ret.val.human = call.ret.val.opaque
    /\ call.ret.val.humanString = call.arg[1] /\ call.ret.val.opaqueString = call.arg[1]
    /\ call.ret.val.humanHex = call.arg[2] /\ call.ret.val.opaqueHex = call.arg[2]

\* C32 as stated: NewMaskString("7777+ugis") and NewMaskHex("a1ff00e5") yield
\* the same Mask, which formats back to "7777+ugis" and to "a1ff00e5".
C32_ExampleAsStated ==
    (call.fn = "MaskForms" /\ call.arg = <<<<"7", "7", "7", "7", "+", "u", "g", "i", "s">>, <<"a", "1", "f", "f", "0", "0", "e", "5">>>>)
        => SameMaskBothForms

\* C32 amended: NewMaskString("7777+ugis") and NewMaskHex("afff0143") yield
\* the same Mask, which formats to "7777+ugsi", the options in the order of
\* attrRep, with String() and to "afff0143" with Hex().
C32_Example ==
    (call.fn = "MaskForms" /\ call.arg = <<<<"7", "7", "7", "7", "+", "u", "g", "i", "s">>, <<"a", "f", "f", "f", "0", "1", "4", "3">>>>)
        => /\ call.ret.val.human = call.ret.val.opaque
           /\ call.ret.val.humanString = <<"7", "7", "7", "7", "+", "u", "g", "s", "i">>
           /\ call.ret.val.opaqueString = <<"7", "7", "7", "7", "+", "u", "g", "s", "i">>
           /\ call.ret.val.humanHex = call.arg[2]
           /\ call.ret.val.opaqueHex = call.arg[2]

\* "7777+ugis" and "afff0143" were parsed to mode 07777 with u, g, s and i
C32_Witness ==
    /\ call.fn = "MaskForms"
    /\ call.arg = <<<<"7", "7", "7", "7", "+", "u", "g", "i", "s">>, <<"a", "f", "f", "f", "0", "1", "4", "3">>>>
    /\ call.ret.val.human = [mode |-> 4095, attr |-> 1 + 2 + 64 + 256]
    /\ call.ret.val.opaque = [mode |-> 4095, attr |-> 1 + 2 + 64 + 256]

\* ---------------------------------------------------------------- C33
\* the option letters of a human mask text: what follows its first +
OptionPart(s) == IF IndexOf(s, "+") = 0 THEN <<>> ELSE SubSeq(s, IndexOf(s, "+") + 1, Len(s))

\* some letter occurs twice in s
Repeats(s) == \E j, k \in 1..Len(s) : j # k /\ s[j] = s[k]

\* C33: NewMaskString answers an option letter outside ugstcxinel with an
\* error instead of passing over it, and a repeated option letter yields the
\* Mask that giving it once yields.
C33_UnknownFailsRepeatOnce ==
    call.fn = "NewMaskString" =>
        LET opts == OptionPart(call.arg)
            S == {opts[k] : k \in 1..Len(opts)}
        IN  /\ ~(S \subseteq AttrLetters) => call.ret.err # ""
            /\ (S \subseteq AttrLetters /\ call.ret.err = "")
                  => call.ret.val.attr = OrdinalSum(S)
            /\ call.ret.err = "" => S \subseteq AttrLetters

\* "+ugu", with the letter u twice, gave the mask of u and g
C33_Witness ==
    /\ call.fn = "NewMaskString"
    /\ call.arg = <<"+", "u", "g", "u">>
    /\ Repeats(OptionPart(call.arg))
    /\ call.ret = Ok([mode |-> 0, attr |-> 3])

\* "7+uz", with the unknown letter z, was answered with an error
C33_WitnessUnknown ==
    /\ call.fn = "NewMaskString"
    /\ call.arg = <<"7", "+", "u", "z">>
    /\ call.ret.err # ""

\* ---------------------------------------------------------------- C34
\* the mask text of an entry, if it has one
EntryMask(entry) == IF Len(SplitColons(entry.hash)) = 3 THEN SplitColons(entry.hash)[3] ELSE <<>>

\* C34 as stated: every entry printed by output mode is reported OK by check
\* mode, the algorithm and the mask of each entry parse back to the values
\* that were used, and each expected digest is compared with the digest
\* computed for the path of the same entry.
C34_RoundTripMaskUsed ==
    call.fn = "validateChecksums" =>
        /\ \A k \in 1..Len(call.arg.read) :
              /\ call.arg.read[k].hash = HashSHA256
              /\ call.arg.read[k].file.mask = call.arg.run.mask
        /\ \A k \in 1..Len(call.ret.val) :
              /\ call.ret.val[k].ok
              /\ call.ret.val[k].path = call.arg.entries[k].path
              /\ call.ret.val[k].expected = call.arg.read[k].sum

\* C34 amended: every entry is reported OK and compared with the digest of
\* its own path, and the algorithm parses back; the mask of an entry parses
\* back to the mask of the node that was printed: the mask used for a
\* directory, the mask used with n cleared and e as applied for another node
\* under i, and no mask, read as the empty mask, for another node without i.
C34_RoundTrip ==
    call.fn = "validateChecksums" =>
        /\ \A k \in 1..Len(call.arg.read) :
              LET used == call.arg.run.mask
                  f == call.arg.read[k].file
                  n == OutputNode(File(f.path, used), call.arg.run.basic)
              IN  /\ call.arg.read[k].hash = HashSHA256
                  /\ f.path = call.arg.run.paths[CHOOSE j \in 1..Len(call.arg.run.paths) :
                                                    call.arg.run.paths[j] = f.path]
                  /\ IF EntryMask(call.arg.entries[k]) = <<>>
                     THEN /\ f.mask = Mask({}, {})
                          /\ call.arg.run.basic \/ (ModeBit.dir \notin n.mode /\ "i" \notin used.attr)
                     ELSE /\ f.mask = n.mask
                          /\ f.mask.mode = used.mode
                          /\ f.mask.attr \ {"n", "e"} = used.attr \ {"n", "e"}
                          /\ ModeBit.dir \in n.mode => f.mask = used
                          /\ ModeBit.dir \notin n.mode => "n" \notin f.mask.attr
        /\ \A k \in 1..Len(call.ret.val) :
              /\ call.ret.val[k].ok
              /\ call.ret.val[k].path = call.arg.entries[k].path
              /\ call.ret.val[k].expected = call.arg.read[k].sum
              /\ call.ret.val[k].expected = SumString(out[k])

\* check mode went through the two entries of a run over the directory d and
\* the link l under the mask 0600+u, the second walk returning first, and
\* reported both OK
C34_Witness ==
    /\ call.fn = "validateChecksums"
    /\ call.arg.run.paths = <<2, 5>>
    /\ call.arg.run.mask = Mask({8, 7}, {"u"})
    /\ Len(call.ret.val) = 2
    /\ retOrder = <<2, 1>>
    /\ call.ret.val[1].ok /\ call.ret.val[2].ok
    /\ eachRet.done

\* ---------------------------------------------------------------- C35
\* invocation i read a directory and returned its digest
DirSummed(i) ==
    IsDirWalk(W[i]) /\ W[i].callee = 0 /\ Returned(W[i]) /\ W[i].node.err = NoErr

\* C35: a directory's digest is computed only after every child walk has
\* returned, from exactly one HashEntry per name the directory read returned,
\* each holding the metadata digest of the File record of that child.
C35_DigestAfterChildren ==
    \A i \in Walkers : DirSummed(i) =>
        /\ \A j \in Children(i) : W[j].pc = "done" /\ W[j].node.err = NoErr
        /\ {W[j].file.path : j \in Children(i)} = FS[W[i].file.path].kids
        /\ Cardinality(Children(i)) = Cardinality(FS[W[i].file.path].kids)
        /\ Len(W[i].hashes) = Cardinality(FS[W[i].file.path].kids)
        /\ \E order \in Perms(Children(i)) :
              \A k \in 1..Len(order) :
                  W[i].hashes[k].hash = Metadata(fileRecord(W[order[k]].node))
        /\ Raw(i, W[i].node) = TreeSum(W[i].hashes)
        /\ W[i].node.sum = Raw(i, W[i].node) \/ WrappedOnce(i, W[i].node)

\* the directory d was delivered with a digest over the entries of its two
\* children, the walk of d/b having returned before the walk of d/a
C35_Witness ==
    \E i \in Walkers :
        /\ IsRoot(W[i]) /\ DirSummed(i) /\ W[i].file.path = 2 /\ W[i].pc = "done"
        /\ Len(W[i].hashes) = 2
        /\ \E a, b \in Children(i) :
              /\ W[a].file.path = 3 /\ W[b].file.path = 4
              /\ W[i].hashes[1].hash = Metadata(fileRecord(W[b].node))
              /\ W[i].hashes[2].hash = Metadata(fileRecord(W[a].node))

\* ---------------------------------------------------------------- C36
\* invocation i returned and its node has not been taken: the goroutine is
\* at the send on nodeRec or on the nodes channel, or its caller has not
\* gone on yet
Undelivered(i) == W[i].pc = "ret"

\* invocation i waits for other walks: for the children of its directory or
\* for the call on the target of its link
Waiting(i) == W[i].pc \in {"walkdir", "range", "call"}

\* C36: a walker holds no permit while it delivers its result: a walkFile
\* that returned holds none, so when every started walkFile has returned the
\* semaphore has all its permits, also after Each returned early with the
\* error of the callback and after a directory returned early on the error
\* of a child; a goroutine left at an undelivered result holds no permit.
C36_NoPermitHeldBlocked ==
    /\ \A i \in Walkers : (Returned(W[i]) \/ Waiting(i)) => Holds(W[i]) = 0
    /\ (\A i \in Walkers : Returned(W[i])) => sem = 0
    /\ (eachRet.done /\ eachRet.err # NoErr) =>
          \A i \in Walkers : Undelivered(i) => (W[i].rel = 1 /\ ~W[i].rOnce)

\* Each returned the error of the callback on the first node while the walk
\* of the second input, a directory that returned early on the error of a
\* child, stays undelivered; every walk returned and no permit is held
C36_Witness ==
    /\ eachRet.done /\ eachRet.err # NoErr
    /\ Len(out) = 1 /\ Len(files) = 2
    /\ \A i \in Walkers : Returned(W[i])
    /\ \E i \in Walkers :
          /\ IsRoot(W[i]) /\ W[i].input = 2 /\ Undelivered(i)
          /\ IsDirWalk(W[i]) /\ W[i].node.err # NoErr
          /\ Cardinality(Children(i)) = 2
    /\ sem = 0

\* ---------------------------------------------------------------- C37
\* C37: walkFile returns a node, never nil, on every path, so the loop of
\* Each ends on nil only when the queue is closed and drained: when Each
\* returns nil, the result of every enqueued input has been passed to the
\* callback.
C37_NodeNeverNil ==
    /\ \A i \in Walkers : Returned(W[i]) =>
          (W[i].node # NilNode /\ W[i].node.path = W[i].file.path)
    /\ \A k \in 1..Len(out) : out[k] # NilNode
    /\ (cons.pc = "done" /\ eachRet.err = NoErr) =>
          /\ eachRet.done
          /\ ReceivesNil(queue)
          /\ Len(out) = Len(queue.elems) - 1
          /\ \A k \in 1..Len(files) : HasRoot(k) /\ W[RootOf(k)].pc = "done"

\* Each returned nil after the callback got two nodes, the first of them the
\* error node of a walk that failed
C37_Witness ==
    /\ eachRet = Returns(NoErr)
    /\ Len(out) = 2
    /\ out[1].err # NoErr /\ out[1].sum = <<>>
    /\ out[2].err = NoErr

\* ---------------------------------------------------------------- C38
\* invocation i returned from the symlink case without follow or from the
\* default case: its entry is a regular file, a special file or a link that
\* was not followed
FromDataCase(i) ==
    /\ Returned(W[i]) /\ W[i].callee = 0
    /\ \/ FS[W[i].file.path].kind \in {"file", "special"}
       \/ FS[W[i].file.path].kind = "symlink" /\ ~follow(W[i].file, W[i].subdir)

\* the data of the entry of invocation i was left out of its digest
DataExcluded(i) ==
    \/ "e" \in W[i].file.mask.attr /\ ("i" \in W[i].file.mask.attr \/ W[i].subdir)
    \/ FS[W[i].file.path].kind = "special" /\ ("i" \in W[i].file.mask.attr \/ W[i].subdir)

\* C38: the mask of a returned node records what was applied: for a regular
\* file, a special file and a link that was not followed n is cleared and e
\* is set exactly when the data of the entry was left out of the digest; the
\* mask of a directory node is the mask given.
C38_MaskRecordsApplied ==
    \A i \in Walkers :
        /\ FromDataCase(i) =>
              /\ "n" \notin W[i].node.mask.attr
              /\ W[i].node.mask.mode = W[i].file.mask.mode
              /\ W[i].node.mask.attr \ {"n", "e"} = W[i].file.mask.attr \ {"n", "e"}
              /\ W[i].node.err = NoErr =>
                    /\ "e" \in W[i].node.mask.attr <=> DataExcluded(i)
                    /\ HoldsData(i, IF DataExcluded(i) THEN <<>> ELSE DataDigest(i))
        /\ (Returned(W[i]) /\ W[i].callee = 0 /\ IsDirWalk(W[i])) =>
              W[i].node.mask = W[i].file.mask

\* the directory d, given with 0400+ne, returned a node with that mask, and
\* its child d/a a node with n cleared, e set and no digest
C38_Witness ==
    \E i, j \in Walkers :
        /\ IsRoot(W[i]) /\ DirSummed(i) /\ W[i].file = File(2, Mask({8}, {"n", "e"}))
        /\ W[i].node.mask = Mask({8}, {"n", "e"})
        /\ W[j].parent = i /\ FromDataCase(j) /\ W[j].file.path = 3
        /\ W[j].node.mask = Mask({8}, {"e"}) /\ W[j].node.sum = <<>>

\* ---------------------------------------------------------------- C39
\* the permission and special bits of an os.FileMode
PermAndSpecial == ModePerm \cup {ModeBit.setuid, ModeBit.setgid, ModeBit.sticky}

\* the permission and special bits the mask of node n does not select
Unselected(n) == PermAndSpecial \ modeMask(n)

\* nodes m and n differ in nothing but mode bits the mask does not select
DifferUnselected(m, n) ==
    /\ m.mode # n.mode
    /\ m.mode \ Unselected(n) = n.mode \ Unselected(n)
    /\ [m EXCEPT !.mode = {}] = [n EXCEPT !.mode = {}]

\* C39: in every File record hashFileAttr encodes, the bits set in mode.mode
\* are among the bits set in mode.mask, and a node that differs from the one
\* encoded only in permission or special bits the mask does not select has
\* the same record and the same digest.
C39_UnselectedBitsIgnored ==
    (call.fn = "hashFileAttr" /\ call.ret.err = "") =>
        LET n == call.arg[1]
            der == call.ret.val.der
        IN  /\ RecordMode(der, n) \subseteq RecordMask(der, n)
            /\ RecordMode(der, n) \cap Unselected(n) = {}
            /\ \A m \in CallNodes :
                  DifferUnselected(m, n) =>
                      /\ fileRecord(m) = der
                      /\ hashFileAttr(m) = [sum |-> call.ret.val.sum, err |-> NoErr]

\* the record of a setuid file with permission bits the mask 0600 does not
\* select is encoded, and the same file without the setuid bit exists
C39_Witness ==
    /\ call.fn = "hashFileAttr" /\ call.ret.err = ""
    /\ call.arg[1].mask.mode = {8, 7}
    /\ call.arg[1].mode = {ModeBit.setuid, 8, 7, 5, 2}
    /\ RecordMode(call.ret.val.der, call.arg[1]) = {8, 7}
    /\ \E m \in CallNodes :
          /\ DifferUnselected(m, call.arg[1])
          /\ ModeBit.setuid \notin m.mode

\* ---------------------------------------------------------------- C40
\* the top-level call i followed a symlink that resolves, and the walk of the
\* target returned an error
FollowedTargetFailed(i) ==
    /\ IsRoot(W[i]) /\ Returned(W[i])
    /\ FS[W[i].file.path].kind = "symlink"
    /\ follow(W[i].file, FALSE)
    /\ FS[W[i].file.path].target # NoPath
    /\ W[i].node.err # NoErr
    /\ Len(W[i].node.err.chain) > 0

\* C40: when a top-level symlink is followed and the walk of its target
\* fails, the FileError of the returned node names the path of the link, not
\* the path the link resolves to.
C40_ErrorNamesLink ==
    \A i \in Walkers :
        FollowedTargetFailed(i) =>
            /\ W[i].node.path = W[i].file.path
            /\ W[i].node.err.chain[1].path = W[i].file.path

====
